---- MODULE Spec2Model ----
(***************************************************************************)
(* Model of the API-SUNAT2 conversion pipeline: a business document is     *)
(* validated, converted to UBL XML, given a cac:Signature reference,       *)
(* digitally signed (digest, RSA signature, embedding of the signature     *)
(* block by string splicing), stored, zipped and answered over HTTP.       *)
(*                                                                         *)
(* XML is modelled as text: every serialized document is a TLA+ string     *)
(* and the splicing code is translated index by index (Go's 0-based        *)
(* strings.Index and slice expressions).                                   *)
(***************************************************************************)
EXTENDS Integers, Sequences, FiniteSets, TLC

(***************************************************************************)
(* Go string primitives                                                    *)
(***************************************************************************)

\* Go slice expression s[a:b] on a string (0-based, b exclusive).
Slice(s, a, b) == SubSeq(s, a + 1, b)

\* Go slice expression s[a:].
SliceFrom(s, a) == SubSeq(s, a + 1, Len(s))

\* TRUE iff pattern p occurs in s at 0-based offset i.
MatchAt(s, p, i) == i + Len(p) <= Len(s) /\ SubSeq(s, i + 1, i + Len(p)) = p

\* Leftmost offset in lo..hi at which p occurs in s, or -1.
RECURSIVE FirstHit(_, _, _, _)
FirstHit(s, p, lo, hi) ==
    IF lo > hi THEN -1
    ELSE IF lo = hi THEN (IF MatchAt(s, p, lo) THEN lo ELSE -1)
    ELSE LET mid == (lo + hi) \div 2
             l   == FirstHit(s, p, lo, mid)
         IN  IF l # -1 THEN l ELSE FirstHit(s, p, mid + 1, hi)

\* strings.Index(s, p): offset of the first occurrence of p in s, or -1.
Index(s, p) == FirstHit(s, p, 0, Len(s) - Len(p))

\* Number of offsets in lo..hi at which p occurs in s.
RECURSIVE CountHits(_, _, _, _)
CountHits(s, p, lo, hi) ==
    IF lo > hi THEN 0
    ELSE IF lo = hi THEN (IF MatchAt(s, p, lo) THEN 1 ELSE 0)
    ELSE LET mid == (lo + hi) \div 2
         IN  CountHits(s, p, lo, mid) + CountHits(s, p, mid + 1, hi)

\* strings.Count(s, p) for the non-self-overlapping patterns used here.
Count(s, p) == CountHits(s, p, 0, Len(s) - Len(p))

(***************************************************************************)
(* Text helpers for encoding/xml's MarshalIndent output                    *)
(***************************************************************************)

Q == "\""

RECURSIVE Join(_)
\* The blocks of a sequence, one per line.
Join(blocks) ==
    IF Len(blocks) = 0 THEN ""
    ELSE IF Len(blocks) = 1 THEN blocks[1]
    ELSE blocks[1] \o "\n" \o Join(Tail(blocks))

RECURSIVE Pad(_, _)
\* MarshalIndent's indentation: d copies of the indent unit u.
Pad(d, u) == IF d = 0 THEN "" ELSE u \o Pad(d - 1, u)

RECURSIVE EscapeText(_)
\* xml.EscapeText: the five markup characters never reach the output raw.
EscapeText(s) ==
    IF Len(s) = 0 THEN ""
    ELSE LET c == SubSeq(s, 1, 1)
             e == CASE c = "<" -> "&lt;"
                    [] c = ">" -> "&gt;"
                    [] c = "&" -> "&amp;"
                    [] c = Q   -> "&#34;"
                    [] c = "'" -> "&#39;"
                    [] OTHER   -> c
         IN  e \o EscapeText(SubSeq(s, 2, Len(s)))

\* An attribute without omitempty: always written.
Attr(name, val) == " " \o name \o "=" \o Q \o EscapeText(val) \o Q

\* An attribute tagged omitempty: dropped when empty.
AttrOmit(name, val) == IF val = "" THEN "" ELSE Attr(name, val)

\* An element holding character data, on one line.
TextEl(d, u, tag, attrs, text) ==
    Pad(d, u) \o "<" \o tag \o attrs \o ">" \o EscapeText(text) \o "</" \o tag \o ">"

\* An element holding child elements (kids: their blocks, already indented).
Elem(d, u, tag, attrs, kids) ==
    IF Len(kids) = 0
    THEN Pad(d, u) \o "<" \o tag \o attrs \o "></" \o tag \o ">"
    ELSE Pad(d, u) \o "<" \o tag \o attrs \o ">" \o "\n" \o Join(kids)
             \o "\n" \o Pad(d, u) \o "</" \o tag \o ">"

RECURSIVE Flatten(_)
\* Concatenation of a sequence of sequences (slices of repeated elements).
Flatten(ss) == IF Len(ss) = 0 THEN << >> ELSE ss[1] \o Flatten(Tail(ss))

\* Decimal digits of a natural number.
Digits(n) == ToString(n)

\* strconv.FormatFloat(f, 'g', -1, 64) of an amount held in hundredths:
\* the shortest decimal text, no trailing zeros (11800 -> "118", 1850 -> "18.5").
FormatG(h) ==
    LET a    == IF h < 0 THEN -h ELSE h
        int  == a \div 100
        frac == a % 100
        sign == IF h < 0 THEN "-" ELSE ""
    IN  sign \o Digits(int) \o
        (IF frac = 0 THEN ""
         ELSE IF frac % 10 = 0 THEN "." \o Digits(frac \div 10)
         ELSE IF frac < 10 THEN ".0" \o Digits(frac)
         ELSE "." \o Digits(frac))

\* fmt.Sprintf("%.2f", f) of an amount held in hundredths.
Format2f(h) ==
    LET a    == IF h < 0 THEN -h ELSE h
        frac == a % 100
    IN  (IF h < 0 THEN "-" ELSE "") \o Digits(a \div 100) \o "."
          \o (IF frac < 10 THEN "0" ELSE "") \o Digits(frac)

(***************************************************************************)
(* Business documents (model/comprobante.go).  Amounts, quantities and     *)
(* rates are held in hundredths.                                           *)
(***************************************************************************)

\* A nil pointer; a pointer that is set is the one-element sequence of its target.
NULL == << >>

\* Items per document range over 1..MaxItems.
MaxItems == 2

IssuerAddress ==
    [street |-> "Av. Principal 123", city |-> "LIMA", district |-> "MIRAFLORES",
     province |-> "LIMA", department |-> "LIMA", country |-> "PE"]

CustomerAddress ==
    [street |-> "Calle Secundaria 456", city |-> "LIMA", district |-> "SURCO",
     province |-> "LIMA", department |-> "LIMA", country |-> "PE"]

\* Party
Issuer(ruc) ==
    [documentType |-> "6", documentID |-> ruc, name |-> "EMPRESA DEMO S.A.C.",
     address |-> IssuerAddress]

Customer ==
    [documentType |-> "1", documentID |-> "12345678", name |-> "JUAN PEREZ",
     address |-> CustomerAddress]

\* Tax / TaxTotal
IGV(base) ==
    [taxType |-> "1000", taxAmount |-> (base * 18) \div 100, taxRate |-> 1800,
     taxBase |-> base]

\* DocumentItem number i: quantity 2, unit price 50.00, one 18% tax.
Item(i, quantity, unitPrice) ==
    [id |-> Digits(i), description |-> "Producto " \o Digits(i),
     quantity |-> quantity, unitCode |-> "NIU", unitPrice |-> unitPrice,
     lineTotal |-> (quantity * unitPrice) \div 100,
     taxes |-> << IGV((quantity * unitPrice) \div 100) >>]

\* DocumentReference
RefDoc ==
    [documentType |-> "01", documentID |-> "F001-123456",
     issueDate |-> "2024-06-07", reason |-> "Anulacion de operacion"]

DocTypes == {"01", "03", "07", "08", "09", "20"}

\* What a request's document gets wrong, if anything.
Defects == {"none", "ruc", "currency", "total", "date", "quantity", "price"}

SeriesOf(type) ==
    CASE type = "01" -> "F001" [] type = "03" -> "B001"
      [] type = "07" -> "NC001" [] type = "08" -> "ND001" [] OTHER -> "X001"

\* BusinessDocument
MkDoc(type, hasRef, nItems, defect) ==
    LET sub == nItems * 10000
        tax == nItems * 1800
    IN  [type      |-> type,
         series    |-> SeriesOf(type),
         number    |-> "123456",
         issueDate |-> IF defect = "date" THEN "2024-13-07" ELSE "2024-06-07",
         dueDate   |-> "",
         currency  |-> IF defect = "currency" THEN "GBP" ELSE "PEN",
         issuer    |-> Issuer(IF defect = "ruc" THEN "20123456789" ELSE "20123456786"),
         customer  |-> Customer,
         items     |-> [i \in 1..nItems |->
                          Item(i, IF defect = "quantity" /\ i = 1 THEN 0 ELSE 200,
                                  IF defect = "price" /\ i = 1 THEN 0 ELSE 5000)],
         totals    |-> [subTotal |-> sub, totalTaxes |-> tax,
                        totalAmount |-> IF defect = "total" THEN sub + tax + 1
                                        ELSE sub + tax,
                        payableAmount |-> sub + tax],
         taxes     |-> << IGV(sub) >>,
         reference |-> IF hasRef THEN << RefDoc >> ELSE NULL]

Docs ==
    { MkDoc(t, r, n, d) : t \in DocTypes, r \in BOOLEAN, n \in 1..MaxItems, d \in Defects }

\* ISC on a base, as a second tax of an item.
ISC(base) ==
    [taxType |-> "2000", taxAmount |-> (base * 10) \div 100, taxRate |-> 1000,
     taxBase |-> base]

\* A document whose taxes list has one IGV entry per item instead of one
\* entry for the whole document, and whose first item also pays ISC.
TaxesPerItem(doc) ==
    [doc EXCEPT !.taxes = [i \in 1..Len(doc.items) |-> doc.items[i].taxes[1]],
                !.items[1].taxes = << doc.items[1].taxes[1], ISC(doc.items[1].lineTotal) >>]

\* A document whose last item has an empty taxes list.
WithoutItemTaxes(doc) == [doc EXCEPT !.items[Len(doc.items)].taxes = << >>]

\* A document with no document-level taxes, whose total is its subtotal.
WithoutTaxes(doc) ==
    [doc EXCEPT !.taxes = << >>,
                !.totals = [subTotal |-> doc.totals.subTotal, totalTaxes |-> 0,
                            totalAmount |-> doc.totals.subTotal,
                            payableAmount |-> doc.totals.subTotal]]

(***************************************************************************)
(* ValidationService (validator)                                           *)
(***************************************************************************)

DigitChars == {"0", "1", "2", "3", "4", "5", "6", "7", "8", "9"}

\* strconv.Atoi of one decimal digit.
DigitVal(c) ==
    CASE c = "0" -> 0 [] c = "1" -> 1 [] c = "2" -> 2 [] c = "3" -> 3 [] c = "4" -> 4
      [] c = "5" -> 5 [] c = "6" -> 6 [] c = "7" -> 7 [] c = "8" -> 8 [] c = "9" -> 9

CharAt(s, i) == SubSeq(s, i + 1, i + 1)

AllDigits(s) == \A i \in 0..(Len(s) - 1) : CharAt(s, i) \in DigitChars

RucWeights == << 5, 4, 3, 2, 7, 6, 5, 4, 3, 2 >>

RECURSIVE RucSum(_, _)
RucSum(ruc, i) ==
    IF i = 10 THEN 0 ELSE DigitVal(CharAt(ruc, i)) * RucWeights[i + 1] + RucSum(ruc, i + 1)

\* A check of the RUC that leaves the computed digits 11 and 10 as they are.
isValidRUCWithoutWrap(ruc) ==
    IF Len(ruc) # 11 THEN FALSE
    ELSE IF ~AllDigits(ruc) THEN FALSE
    ELSE 11 - (RucSum(ruc, 0) % 11) = DigitVal(CharAt(ruc, 10))

isValidRUC(ruc) ==
    IF Len(ruc) # 11 THEN FALSE
    ELSE IF ~AllDigits(ruc) THEN FALSE
    ELSE LET remainder  == RucSum(ruc, 0) % 11
             checkDigit == 11 - remainder
             adjusted   == IF checkDigit = 11 THEN 0
                           ELSE IF checkDigit = 10 THEN 1 ELSE checkDigit
         IN  adjusted = DigitVal(CharAt(ruc, 10))

isValidDocumentType(docType) == docType \in {"01", "03", "07", "08"}

isValidCurrency(currency) == currency \in {"PEN", "USD", "EUR"}

\* time.Parse("2006-01-02", s): four-digit year, month 01..12, day in the month.
isValidDate(dateStr) ==
    /\ Len(dateStr) = 10
    /\ CharAt(dateStr, 4) = "-" /\ CharAt(dateStr, 7) = "-"
    /\ AllDigits(Slice(dateStr, 0, 4)) /\ AllDigits(Slice(dateStr, 5, 7))
    /\ AllDigits(Slice(dateStr, 8, 10))
    /\ LET y == DigitVal(CharAt(dateStr, 0)) * 1000 + DigitVal(CharAt(dateStr, 1)) * 100
                  + DigitVal(CharAt(dateStr, 2)) * 10 + DigitVal(CharAt(dateStr, 3))
           m == DigitVal(CharAt(dateStr, 5)) * 10 + DigitVal(CharAt(dateStr, 6))
           d == DigitVal(CharAt(dateStr, 8)) * 10 + DigitVal(CharAt(dateStr, 9))
           leap == (y % 4 = 0 /\ y % 100 # 0) \/ y % 400 = 0
           dim == CASE m \in {1, 3, 5, 7, 8, 10, 12} -> 31
                    [] m \in {4, 6, 9, 11} -> 30
                    [] m = 2 -> (IF leap THEN 29 ELSE 28)
                    [] OTHER -> 0
       IN  m \in 1..12 /\ d \in 1..dim

RECURSIVE SumTaxAmount(_)
SumTaxAmount(taxes) ==
    IF Len(taxes) = 0 THEN 0 ELSE taxes[1].taxAmount + SumTaxAmount(Tail(taxes))

\* The pairs of amounts (in hundredths) among those the requests carry whose
\* float64 sum is not the float64 that the decimal sum parses to:
\* 0.10 + 0.20 is 0.30000000000000004 and 100.10 + 18.02 is
\* 118.11999999999999.  Sums of whole units, and the other fractional pairs
\* of the requests, are exact.
InexactSums == { << 10, 20 >>, << 10010, 1802 >> }

\* total += tax.TaxAmount on float64: the decimal the sum prints as, and
\* whether the sum is still the float64 of that decimal.
Float64Add(total, taxAmount) ==
    [amount |-> total.amount + taxAmount,
     exact  |-> total.exact /\ << total.amount, taxAmount >> \notin InexactSums]

RECURSIVE AddTaxAmounts(_, _)
AddTaxAmounts(total, taxes) ==
    IF Len(taxes) = 0 THEN total
    ELSE AddTaxAmounts(Float64Add(total, taxes[1].taxAmount), Tail(taxes))

calculateTotal(doc) ==
    AddTaxAmounts([amount |-> doc.totals.subTotal, exact |-> TRUE], doc.taxes)

\* calculatedTotal != doc.Totals.TotalAmount on float64: the two differ when
\* their decimals differ, and also when the sum has left the float64 of its
\* decimal.
Float64Differs(calculatedTotal, totalAmount) ==
    calculatedTotal.amount # totalAmount \/ ~calculatedTotal.exact

\* ValidationError
VErr(field, expected, received, rule) ==
    [field |-> field, expected |-> expected, received |-> received, rule |-> rule]

ItemErrors(item, i) ==
    (IF item.quantity <= 0
     THEN << VErr("items[" \o Digits(i) \o "].quantity", "Greater than 0",
                  Format2f(item.quantity), "quantity_validation") >>
     ELSE << >>)
    \o
    (IF item.unitPrice <= 0
     THEN << VErr("items[" \o Digits(i) \o "].unitPrice", "Greater than 0",
                  Format2f(item.unitPrice), "price_validation") >>
     ELSE << >>)

ValidateBusinessDocument(doc) ==
    (IF ~isValidRUC(doc.issuer.documentID)
     THEN << VErr("issuer.documentId", "Valid RUC format", doc.issuer.documentID,
                  "ruc_validation") >>
     ELSE << >>)
    \o
    (IF ~isValidDocumentType(doc.type)
     THEN << VErr("type", "Valid document type (01, 03, 07, 08)", doc.type,
                  "document_type_validation") >>
     ELSE << >>)
    \o
    (IF ~isValidCurrency(doc.currency)
     THEN << VErr("currency", "Valid currency code (PEN, USD, EUR)", doc.currency,
                  "currency_validation") >>
     ELSE << >>)
    \o
    (IF Float64Differs(calculateTotal(doc), doc.totals.totalAmount)
     THEN << VErr("totals.totalAmount", Format2f(calculateTotal(doc).amount),
                  Format2f(doc.totals.totalAmount), "sum_validation") >>
     ELSE << >>)
    \o
    (IF ~isValidDate(doc.issueDate)
     THEN << VErr("issueDate", "Valid date format YYYY-MM-DD", doc.issueDate,
                  "date_validation") >>
     ELSE << >>)
    \o
    Flatten([i \in 1..Len(doc.items) |-> ItemErrors(doc.items[i], i - 1)])

(***************************************************************************)
(* UBL output structures (model/comprobante.go) as MarshalIndent writes    *)
(* them.  d is the nesting depth, u the indent unit.                       *)
(***************************************************************************)

NsCac == "urn:oasis:names:specification:ubl:schema:xsd:CommonAggregateComponents-2"
NsCbc == "urn:oasis:names:specification:ubl:schema:xsd:CommonBasicComponents-2"
NsExt == "urn:oasis:names:specification:ubl:schema:xsd:CommonExtensionComponents-2"
NsDs  == "http://www.w3.org/2000/09/xmldsig#"
UNECE == "United Nations Economic Commission for Europe"

\* UBLIDWithScheme
IDWithScheme(d, u, tag, agency, id, name, uri, value) ==
    TextEl(d, u, tag,
           AttrOmit("schemeAgencyName", agency) \o AttrOmit("schemeID", id)
             \o AttrOmit("schemeName", name) \o AttrOmit("schemeURI", uri),
           value)

\* UBLTypeCode
TypeCode(d, u, tag, agency, id, name, uri, nm, value) ==
    TextEl(d, u, tag,
           AttrOmit("listAgencyName", agency) \o AttrOmit("listID", id)
             \o AttrOmit("listName", name) \o AttrOmit("listURI", uri)
             \o AttrOmit("name", nm),
           value)

\* UBLAmountWithCurrency: the Decimal2 value is character data, which
\* encoding/xml writes with strconv's 'g' format.
Amount(d, u, tag, currency, value) ==
    TextEl(d, u, tag, Attr("currencyID", currency), FormatG(value))

\* UBLQuantityWithUnit
Quantity(d, u, tag, unitCode, value) ==
    TextEl(d, u, tag,
           Attr("unitCode", unitCode) \o AttrOmit("unitCodeListAgencyName", UNECE)
             \o AttrOmit("unitCodeListID", "UN/ECE rec 20"),
           FormatG(value))

\* Sequence of the elements that are written (omitempty drops the empty ones).
OmitEl(d, u, tag, text) == IF text = "" THEN << >> ELSE << TextEl(d, u, tag, "", text) >>

\* UBLSignature (cac:Signature)
MarshalUBLSignature(d, u, id, issuerID, issuerName) ==
    Elem(d, u, "cac:Signature", "", <<
        TextEl(d + 1, u, "cbc:ID", "", id),
        Elem(d + 1, u, "cac:SignatoryParty", "", <<
            Elem(d + 2, u, "PartyIdentification", Attr("xmlns", NsCac), <<
                IDWithScheme(d + 3, u, "cbc:ID", "", "", "", "", issuerID) >>),
            Elem(d + 2, u, "PartyName", Attr("xmlns", NsCac), <<
                TextEl(d + 3, u, "cbc:Name", "", issuerName) >>) >>),
        Elem(d + 1, u, "cac:DigitalSignatureAttachment", "", <<
            Elem(d + 2, u, "ExternalReference", Attr("xmlns", NsCac), <<
                TextEl(d + 3, u, "URI", Attr("xmlns", NsCbc), "#SignatureSP") >>) >>) >>)

\* UBLConverter.createUBLSignature
createUBLSignature(d, u, doc) ==
    MarshalUBLSignature(d, u, doc.series \o "-" \o doc.number,
                        doc.issuer.documentID, doc.issuer.name)

\* UBLRegistrationAddress as convertParty fills it.
RegistrationAddress(d, u, party) ==
    Elem(d, u, "cac:RegistrationAddress", "", <<
        IDWithScheme(d + 1, u, "cbc:ID", "PE:INEI", "", "Ubigeos", "", "140101"),
        IDWithScheme(d + 1, u, "cbc:AddressTypeCode", "PE:SUNAT", "",
                     "Establecimientos anexos", "", "0000"),
        TextEl(d + 1, u, "cbc:CityName", "", party.address.city),
        TextEl(d + 1, u, "cbc:CountrySubentity", "", party.address.province),
        TextEl(d + 1, u, "cbc:District", "", party.address.district),
        Elem(d + 1, u, "cac:AddressLine", "", <<
            TextEl(d + 2, u, "cbc:Line", "",
                   party.address.street \o " - " \o party.address.district \o " - "
                     \o party.address.province \o " - " \o party.address.department) >>),
        Elem(d + 1, u, "cac:Country", "", <<
            IDWithScheme(d + 2, u, "cbc:IdentificationCode", UNECE, "ISO 3166-1",
                         "Country", "", party.address.country) >>) >>)

\* A selection of the scheme that takes every party for a taxpayer.
PartySchemeIDAlwaysRUC(party) == "6"

\* The identification scheme convertParty selects.
PartySchemeID(party) == IF party.documentType = "1" THEN "1" ELSE "6"

\* UBLConverter.convertParty: the cac:Party block of a supplier or customer.
convertParty(d, u, tag, party) ==
    LET schemeID == PartySchemeID(party)
        idName   == "SUNAT:Identificador de Documento de Identidad"
        cat06    == "urn:pe:gob:sunat:cpe:see:gem:catalogos:catalogo06"
    IN  Elem(d, u, tag, "", <<
          Elem(d + 1, u, "cac:Party", "", <<
            Elem(d + 2, u, "cac:PartyIdentification", "", <<
                IDWithScheme(d + 3, u, "cbc:ID", "PE:SUNAT", schemeID,
                             "Documento de Identidad", cat06, party.documentID) >>),
            Elem(d + 2, u, "cac:PartyName", "", <<
                TextEl(d + 3, u, "cbc:Name", "", party.name) >>),
            RegistrationAddress(d + 2, u, party),
            Elem(d + 2, u, "cac:PartyTaxScheme", "", <<
                TextEl(d + 3, u, "cbc:RegistrationName", "", party.name),
                IDWithScheme(d + 3, u, "cbc:CompanyID", "PE:SUNAT", schemeID, idName,
                             cat06, party.documentID),
                Elem(d + 3, u, "cac:TaxScheme", "", <<
                    IDWithScheme(d + 4, u, "cbc:ID", "PE:SUNAT", schemeID, idName,
                                 cat06, party.documentID) >>) >>),
            Elem(d + 2, u, "cac:PartyLegalEntity", "", <<
                TextEl(d + 3, u, "cbc:RegistrationName", "", party.name),
                RegistrationAddress(d + 3, u, party) >>),
            Elem(d + 2, u, "cac:Contact", "", << >>) >>) >>)

\* UBLConverter.getTaxName
getTaxName(taxType) ==
    CASE taxType = "1000" -> "IGV"
      [] taxType = "2000" -> "ISC"
      [] taxType = "7152" -> "ICBPER"
      [] OTHER -> "TAX"

\* One cac:TaxTotal wrapping one cac:TaxSubtotal; schemeName is the name
\* given to the tax scheme identifier ("" at the document level).
TaxTotalBlock(d, u, tax, currency, schemeName) ==
    Elem(d, u, "cac:TaxTotal", "", <<
        Amount(d + 1, u, "cbc:TaxAmount", currency, tax.taxAmount),
        Elem(d + 1, u, "cac:TaxSubtotal", "", <<
            Amount(d + 2, u, "cbc:TaxableAmount", currency, tax.taxBase),
            Amount(d + 2, u, "cbc:TaxAmount", currency, tax.taxAmount),
            Elem(d + 2, u, "cac:TaxCategory", "",
                << IDWithScheme(d + 3, u, "cbc:ID", UNECE, "UN/ECE 5305",
                                "Tax Category Identifier", "", "S") >>
                \o (IF tax.taxRate = 0 THEN << >>
                    ELSE << TextEl(d + 3, u, "cbc:Percent", "", FormatG(tax.taxRate)) >>)
                \o << IDWithScheme(d + 3, u, "cbc:TaxExemptionReasonCode", "PE:SUNAT", "",
                                   "Afectacion del IGV",
                                   "urn:pe:gob:sunat:cpe:see:gem:catalogos:catalogo07", "10"),
                      Elem(d + 3, u, "cac:TaxScheme", "",
                          << IDWithScheme(d + 4, u, "cbc:ID", "PE:SUNAT", "UN/ECE 5153",
                                          schemeName, "", tax.taxType) >>
                          \o OmitEl(d + 4, u, "cbc:Name", getTaxName(tax.taxType))
                          \o OmitEl(d + 4, u, "cbc:TaxTypeCode", "VAT")) >>) >>) >>)

\* UBLConverter.convertTaxTotals: one cac:TaxTotal per entry of the taxes.
convertTaxTotals(d, u, taxes, currency) ==
    [i \in 1..Len(taxes) |-> TaxTotalBlock(d, u, taxes[i], currency, "")]

\* UBLConverter.convertItemTaxes
convertItemTaxes(d, u, taxes, currency) ==
    [i \in 1..Len(taxes) |-> TaxTotalBlock(d, u, taxes[i], currency, "Codigo de tributos")]

\* UBLConverter.convertLegalMonetaryTotal
convertLegalMonetaryTotal(d, u, totals, currency) ==
    Elem(d, u, "cac:LegalMonetaryTotal", "", <<
        Amount(d + 1, u, "cbc:LineExtensionAmount", currency, totals.subTotal),
        Amount(d + 1, u, "cbc:TaxInclusiveAmount", currency, totals.totalAmount),
        Amount(d + 1, u, "cbc:PayableAmount", currency, totals.payableAmount) >>)

\* One line of convertInvoiceLines, convertCreditNoteLines or
\* convertDebitNoteLines (they differ in the two tags only).
ConvertLine(d, u, lineTag, qtyTag, i, item, currency) ==
    Elem(d, u, lineTag, "",
        << TextEl(d + 1, u, "cbc:ID", "", Digits(i)),
           Quantity(d + 1, u, qtyTag, item.unitCode, item.quantity),
           Amount(d + 1, u, "cbc:LineExtensionAmount", currency, item.lineTotal),
           Elem(d + 1, u, "cac:PricingReference", "", <<
               Elem(d + 2, u, "cac:AlternativeConditionPrice", "", <<
                   Amount(d + 3, u, "cbc:PriceAmount", currency,
                          (item.unitPrice * item.quantity) \div 100),
                   IDWithScheme(d + 3, u, "cbc:PriceTypeCode", "PE:SUNAT", "",
                                "Tipo de Precio",
                                "urn:pe:gob:sunat:cpe:see:gem:catalogos:catalogo16",
                                "01") >>) >>) >>
        \o convertItemTaxes(d + 1, u, item.taxes, currency)
        \o << Elem(d + 1, u, "cac:Item", "", <<
                  TextEl(d + 2, u, "cbc:Description", "", item.description),
                  Elem(d + 2, u, "cac:SellersItemIdentification", "", <<
                      TextEl(d + 3, u, "cbc:ID", "", item.id) >>),
                  Elem(d + 2, u, "cac:CommodityClassification", "", <<
                      IDWithScheme(d + 3, u, "cbc:ItemClassificationCode", "GS1 US",
                                   "UNSPSC", "Item Classification", "", "10191509") >>) >>),
              Elem(d + 1, u, "cac:Price", "", <<
                  Amount(d + 2, u, "cbc:PriceAmount", currency, item.unitPrice) >>) >>)

convertInvoiceLines(d, u, items, currency) ==
    [i \in 1..Len(items) |->
        ConvertLine(d, u, "cac:InvoiceLine", "cbc:InvoicedQuantity", i, items[i], currency)]

convertCreditNoteLines(d, u, items, currency) ==
    [i \in 1..Len(items) |->
        ConvertLine(d, u, "cac:CreditNoteLine", "cbc:CreditedQuantity", i, items[i], currency)]

convertDebitNoteLines(d, u, items, currency) ==
    [i \in 1..Len(items) |->
        ConvertLine(d, u, "cac:DebitNoteLine", "cbc:DebitedQuantity", i, items[i], currency)]

(***************************************************************************)
(* XMLDSig structures.                                                     *)
(***************************************************************************)

\* XMLSignature{}: the zero value the invoice builder leaves in the container.
EmptyXMLSignature ==
    [Id |-> "", CanonicalizationMethod |-> "", SignatureMethod |-> "", URI |-> "",
     Transform |-> << >>, DigestMethod |-> "", DigestValue |-> "",
     SignatureValue |-> "", X509Certificate |-> ""]

\* An element that has an Algorithm attribute and nothing else.
AlgorithmEl(d, u, tag, algorithm) == Elem(d, u, tag, Attr("Algorithm", algorithm), << >>)

\* XMLSignature (ds:Signature) and the structures below it.
MarshalXMLSignature(d, u, sig) ==
    Elem(d, u, "ds:Signature", Attr("Id", sig.Id), <<
        Elem(d + 1, u, "ds:SignedInfo", "", <<
            AlgorithmEl(d + 2, u, "ds:CanonicalizationMethod", sig.CanonicalizationMethod),
            AlgorithmEl(d + 2, u, "ds:SignatureMethod", sig.SignatureMethod),
            Elem(d + 2, u, "ds:Reference", Attr("URI", sig.URI), <<
                Elem(d + 3, u, "ds:Transforms", "",
                     [i \in 1..Len(sig.Transform) |->
                        AlgorithmEl(d + 4, u, "ds:Transform", sig.Transform[i])]),
                AlgorithmEl(d + 3, u, "ds:DigestMethod", sig.DigestMethod),
                TextEl(d + 3, u, "ds:DigestValue", "", sig.DigestValue) >>) >>),
        TextEl(d + 1, u, "ds:SignatureValue", "", sig.SignatureValue),
        Elem(d + 1, u, "ds:KeyInfo", "", <<
            Elem(d + 2, u, "ds:X509Data", "", <<
                TextEl(d + 3, u, "ds:X509Certificate", "", sig.X509Certificate) >>) >>) >>)

\* UBLExtensions written as a field of a document: the field's tag names it.
MarshalUBLExtensionsField(d, u, sig) ==
    Elem(d, u, "ext:UBLExtensions", "", <<
        Elem(d + 1, u, "ext:UBLExtension", "", <<
            Elem(d + 2, u, "ext:ExtensionContent", "", <<
                MarshalXMLSignature(d + 3, u, sig) >>) >>) >>)

\* UBLExtensions marshalled on its own (insertSignatureInXML): the struct has
\* no XMLName, so the element takes the name of the Go type.
MarshalUBLExtensions(sig) ==
    Elem(0, "  ", "UBLExtensions", "", <<
        Elem(1, "  ", "ext:UBLExtension", "", <<
            Elem(2, "  ", "ext:ExtensionContent", "", <<
                MarshalXMLSignature(3, "  ", sig) >>) >>) >>)

(***************************************************************************)
(* UBLConverter: the three document builders and their serialization.      *)
(***************************************************************************)

xmlDeclaration == "<?xml version=" \o Q \o "1.0" \o Q \o " encoding=" \o Q \o "UTF-8" \o Q \o "?>\n"

CustomizationID(d, u) ==
    IDWithScheme(d, u, "cbc:CustomizationID", "PE:SUNAT", "", "", "", "2.0")

ProfileID(d, u) ==
    IDWithScheme(d, u, "cbc:ProfileID", "PE:SUNAT", "", "Tipo de Operacion",
                 "urn:pe:gob:sunat:cpe:see:gem:catalogos:catalogo51", "0101")

DocumentTypeCode(d, u, tag, catalog, doc) ==
    TypeCode(d, u, tag, "PE:SUNAT", "0101", "Tipo de Documento",
             "urn:pe:gob:sunat:cpe:see:gem:catalogos:" \o catalog, "Tipo de Operacion",
             doc.type)

DocumentCurrencyCode(d, u, doc) ==
    IDWithScheme(d, u, "cbc:DocumentCurrencyCode", UNECE, "ISO 4217 Alpha", "Currency",
                 "", doc.currency)

PaymentTerms(d, u) ==
    Elem(d, u, "cac:PaymentTerms", "", <<
        TextEl(d + 1, u, "cbc:ID", "", "FormaPago"),
        TextEl(d + 1, u, "cbc:PaymentMeansID", "", "Contado") >>)

\* The sections every document ends with.
CommonTail(u, doc) ==
    << convertParty(1, u, "cac:AccountingSupplierParty", doc.issuer),
       convertParty(1, u, "cac:AccountingCustomerParty", doc.customer),
       PaymentTerms(1, u) >>
    \o convertTaxTotals(1, u, doc.taxes, doc.currency)
    \o << convertLegalMonetaryTotal(1, u, doc.totals, doc.currency) >>

\* UBLConverter.convertToInvoice
convertToInvoice(doc) ==
    LET u    == "  "
        note == IF doc.type = "03"
                THEN "TRANSFERENCIA GRATUITA DE UN BIEN Y/O SERVICIO PRESTADO GRATUITAMENTE"
                ELSE ""
    IN  xmlDeclaration \o
        Elem(0, u, "Invoice",
             Attr("xmlns", "urn:oasis:names:specification:ubl:schema:xsd:Invoice-2")
               \o Attr("xmlns:cbc", "") \o Attr("xmlns:cac", "")
               \o Attr("xmlns:ext", "") \o Attr("xmlns:ds", ""),
             << MarshalUBLExtensionsField(1, u, EmptyXMLSignature),
                TextEl(1, u, "cbc:UBLVersionID", "", "2.1"),
                CustomizationID(1, u),
                ProfileID(1, u),
                TextEl(1, u, "cbc:ID", "", doc.series \o "-" \o doc.number),
                TextEl(1, u, "cbc:IssueDate", "", doc.issueDate),
                TextEl(1, u, "cbc:IssueTime", "", "10:30:00") >>
             \o OmitEl(1, u, "cbc:DueDate", doc.issueDate)
             \o << DocumentTypeCode(1, u, "cbc:InvoiceTypeCode", "catalogo01", doc),
                   DocumentCurrencyCode(1, u, doc),
                   TextEl(1, u, "cbc:LineCountNumeric", "", Digits(Len(doc.items))) >>
             \o OmitEl(1, u, "cbc:Note", note)
             \o << createUBLSignature(1, u, doc) >>
             \o CommonTail(u, doc)
             \o convertInvoiceLines(1, u, doc.items, doc.currency))

\* A builder of the reference sections that writes the note's own identifier
\* where the modified document's identifier goes.
ReferenceSectionsOwnID(u, doc) ==
    IF doc.reference = NULL THEN << >>
    ELSE << Elem(1, u, "cac:DiscrepancyResponse", "", <<
                TextEl(2, u, "cbc:ReferenceID", "", doc.series \o "-" \o doc.number),
                TextEl(2, u, "cbc:ResponseCode", "", "01"),
                TextEl(2, u, "cbc:Description", "", doc.reference[1].reason) >>),
            Elem(1, u, "cac:BillingReference", "", <<
                Elem(2, u, "cac:InvoiceDocumentReference", "", <<
                    TextEl(3, u, "cbc:ID", "", doc.reference[1].documentID),
                    TextEl(3, u, "cbc:IssueDate", "", doc.reference[1].issueDate),
                    TextEl(3, u, "cbc:DocumentTypeCode", "", doc.reference[1].documentType) >>) >>) >>

\* The reference sections of a note: empty slices unless doc.Reference is set.
ReferenceSections(u, doc) ==
    IF doc.reference = NULL THEN << >>
    ELSE << Elem(1, u, "cac:DiscrepancyResponse", "", <<
                TextEl(2, u, "cbc:ReferenceID", "", doc.reference[1].documentID),
                TextEl(2, u, "cbc:ResponseCode", "", "01"),
                TextEl(2, u, "cbc:Description", "", doc.reference[1].reason) >>),
            Elem(1, u, "cac:BillingReference", "", <<
                Elem(2, u, "cac:InvoiceDocumentReference", "", <<
                    TextEl(3, u, "cbc:ID", "", doc.reference[1].documentID),
                    TextEl(3, u, "cbc:IssueDate", "", doc.reference[1].issueDate),
                    TextEl(3, u, "cbc:DocumentTypeCode", "", doc.reference[1].documentType) >>) >>) >>

\* What convertToCreditNote and convertToDebitNote share.
ConvertNote(doc, root, typeTag, catalog, lines) ==
    LET u == "    "
    IN  xmlDeclaration \o
        Elem(0, u, root,
             Attr("xmlns", "urn:oasis:names:specification:ubl:schema:xsd:" \o root \o "-2")
               \o Attr("xmlns:cac", NsCac) \o Attr("xmlns:cbc", NsCbc)
               \o Attr("xmlns:ds", NsDs) \o Attr("xmlns:ext", NsExt),
             << TextEl(1, u, "cbc:UBLVersionID", "", "2.1"),
                CustomizationID(1, u),
                ProfileID(1, u),
                TextEl(1, u, "cbc:ID", "", doc.series \o "-" \o doc.number),
                TextEl(1, u, "cbc:IssueDate", "", doc.issueDate),
                TextEl(1, u, "cbc:IssueTime", "", "10:30:00"),
                DocumentTypeCode(1, u, typeTag, catalog, doc),
                DocumentCurrencyCode(1, u, doc),
                TextEl(1, u, "cbc:LineCountNumeric", "", Digits(Len(doc.items))) >>
             \o ReferenceSections(u, doc)
             \o CommonTail(u, doc)
             \o lines)

\* UBLConverter.convertToCreditNote
convertToCreditNote(doc) ==
    ConvertNote(doc, "CreditNote", "cbc:CreditNoteTypeCode", "catalogo09",
                convertCreditNoteLines(1, "    ", doc.items, doc.currency))

\* UBLConverter.convertToDebitNote
convertToDebitNote(doc) ==
    ConvertNote(doc, "DebitNote", "cbc:DebitNoteTypeCode", "catalogo10",
                convertDebitNoteLines(1, "    ", doc.items, doc.currency))

(***************************************************************************)
(* The second revision of the converter (part_001): only the invoice is    *)
(* built; the nested structures carry namespace-qualified tags, which      *)
(* encoding/xml writes as an xmlns attribute on every element.             *)
(***************************************************************************)

\* An aggregate element with a namespace-qualified tag.
CacEl(d, u, local, kids) == Elem(d, u, local, Attr("xmlns", NsCac), kids)

\* A basic element with a namespace-qualified tag.
CbcEl(d, u, local, attrs, text) == TextEl(d, u, local, Attr("xmlns", NsCbc) \o attrs, text)

\* UBLAmountWithCurrency under a namespace-qualified tag.
CbcAmount(d, u, local, currency, value) ==
    CbcEl(d, u, local, Attr("currencyID", currency), FormatG(value))

\* The UBLSignature literal of convertToInvoice.
MarshalUBLSignatureB(d, u, doc) ==
    Elem(d, u, "cac:Signature", "", <<
        TextEl(d + 1, u, "cbc:ID", "", doc.series \o "-" \o doc.number),
        Elem(d + 1, u, "cac:SignatoryParty", "", <<
            CacEl(d + 2, u, "PartyIdentification", <<
                CbcEl(d + 3, u, "ID", "", doc.issuer.documentID) >>),
            CacEl(d + 2, u, "PartyName", <<
                CbcEl(d + 3, u, "Name", "", doc.issuer.name) >>) >>),
        Elem(d + 1, u, "cac:DigitalSignatureAttachment", "", <<
            CacEl(d + 2, u, "ExternalReference", <<
                CbcEl(d + 3, u, "URI", "", "#SignatureSP") >>) >>) >>)

\* UBLConverter.convertParty (part_001)
convertPartyB(d, u, tag, party) ==
    Elem(d, u, tag, "", <<
      CacEl(d + 1, u, "Party", <<
        CacEl(d + 2, u, "PartyIdentification", <<
            CbcEl(d + 3, u, "ID",
                  Attr("schemeAgencyName", "PE:SUNAT") \o Attr("schemeID", PartySchemeID(party))
                    \o Attr("schemeName", "SUNAT:Identificador de Documento de Identidad"),
                  party.documentID) >>),
        CacEl(d + 2, u, "PartyName", << CbcEl(d + 3, u, "Name", "", party.name) >>),
        CacEl(d + 2, u, "PartyLegalEntity", <<
            CbcEl(d + 3, u, "RegistrationName", "", party.name),
            CacEl(d + 3, u, "RegistrationAddress", <<
                CbcEl(d + 4, u, "ID",
                      Attr("schemeAgencyName", "PE:INEI") \o Attr("schemeName", "Ubigeos"),
                      "140101"),
                CbcEl(d + 4, u, "AddressTypeCode", "", ""),
                CbcEl(d + 4, u, "CityName", "", party.address.city),
                CbcEl(d + 4, u, "CountrySubentity", "", party.address.province),
                CbcEl(d + 4, u, "District", "", party.address.district),
                CacEl(d + 4, u, "AddressLine", <<
                    CbcEl(d + 5, u, "Line", "",
                          party.address.street \o " - " \o party.address.district \o " - "
                            \o party.address.province \o " - "
                            \o party.address.department) >>),
                CacEl(d + 4, u, "Country", <<
                    CbcEl(d + 5, u, "IdentificationCode", "", party.address.country) >>)
            >>) >>) >>) >>)

\* One UBLTaxSubtotal; exemption is the TaxExemptionReasonCode ("" when the
\* builder leaves it unset: the empty structure is still written).
TaxSubtotalB(d, u, tax, currency, exemption, schemeID, schemeName) ==
    CacEl(d, u, "TaxSubtotal", <<
        CbcAmount(d + 1, u, "TaxableAmount", currency, tax.taxBase),
        CbcAmount(d + 1, u, "TaxAmount", currency, tax.taxAmount),
        CacEl(d + 1, u, "TaxCategory",
            << CbcEl(d + 2, u, "ID", "", "S") >>
            \o (IF tax.taxRate = 0 THEN << >>
                ELSE << CbcEl(d + 2, u, "Percent", "", FormatG(tax.taxRate)) >>)
            \o << CbcEl(d + 2, u, "TaxExemptionReasonCode", "", exemption),
                  CacEl(d + 2, u, "TaxScheme", <<
                      CbcEl(d + 3, u, "ID", "", schemeID),
                      CbcEl(d + 3, u, "Name", "", schemeName),
                      CbcEl(d + 3, u, "TaxTypeCode", "", "VAT") >>) >>) >>)

\* UBLConverter.convertTaxTotals (part_001): every entry becomes a subtotal
\* of one global TaxTotal, whose amount is the first entry's.
convertTaxTotalsB(d, u, taxes, currency) ==
    IF Len(taxes) = 0 THEN << >>
    ELSE << Elem(d, u, "cac:TaxTotal", "",
                << CbcAmount(d + 1, u, "TaxAmount", currency, taxes[1].taxAmount) >>
                \o [i \in 1..Len(taxes) |->
                      TaxSubtotalB(d + 1, u, taxes[i], currency, "", "1000", "IGV")]) >>

\* UBLConverter.convertItemTaxes (part_001)
convertItemTaxesB(d, u, taxes, currency) ==
    [i \in 1..Len(taxes) |->
        CacEl(d, u, "TaxTotal", <<
            CbcAmount(d + 1, u, "TaxAmount", currency, taxes[i].taxAmount),
            TaxSubtotalB(d + 1, u, taxes[i], currency, "10", taxes[i].taxType,
                         getTaxName(taxes[i].taxType)) >>)]

\* UBLConverter.convertLegalMonetaryTotal (part_001)
convertLegalMonetaryTotalB(d, u, totals, currency) ==
    Elem(d, u, "cac:LegalMonetaryTotal", "", <<
        CbcAmount(d + 1, u, "LineExtensionAmount", currency, totals.subTotal),
        CbcAmount(d + 1, u, "TaxInclusiveAmount", currency, totals.totalAmount),
        CbcAmount(d + 1, u, "PayableAmount", currency, totals.payableAmount) >>)

\* UBLConverter.convertInvoiceLines (part_001): the reference price is the
\* unit price with the first tax of the item on top.
convertInvoiceLinesB(d, u, items, currency) ==
    [i \in 1..Len(items) |->
        Elem(d, u, "cac:InvoiceLine", "",
            << CbcEl(d + 1, u, "ID", "", Digits(i)),
               CbcEl(d + 1, u, "InvoicedQuantity", Attr("unitCode", items[i].unitCode),
                     FormatG(items[i].quantity)),
               CbcAmount(d + 1, u, "LineExtensionAmount", currency, items[i].lineTotal),
               CacEl(d + 1, u, "PricingReference", <<
                   CacEl(d + 2, u, "AlternativeConditionPrice", <<
                       CbcAmount(d + 3, u, "PriceAmount", currency,
                                 (items[i].unitPrice * (10000 + items[i].taxes[1].taxRate))
                                    \div 10000),
                       CbcEl(d + 3, u, "PriceTypeCode", "", "01") >>) >>) >>
            \o convertItemTaxesB(d + 1, u, items[i].taxes, currency)
            \o << CacEl(d + 1, u, "Item", <<
                      CbcEl(d + 2, u, "Description", "", items[i].description),
                      CacEl(d + 2, u, "SellersItemIdentification", <<
                          CbcEl(d + 3, u, "ID", "", items[i].id) >>) >>),
                  CacEl(d + 1, u, "Price", <<
                      CbcAmount(d + 2, u, "PriceAmount", currency, items[i].unitPrice) >>) >>)]

\* UBLConverter.convertToInvoice (part_001); now is time.Now() as "15:04:05".
convertToInvoiceB(doc, now) ==
    LET u == "  "
    IN  xmlDeclaration \o
        Elem(0, u, "Invoice",
             Attr("xmlns", "urn:oasis:names:specification:ubl:schema:xsd:Invoice-2")
               \o Attr("xmlns:cbc", NsCbc) \o Attr("xmlns:cac", NsCac)
               \o Attr("xmlns:ext", NsExt) \o Attr("xmlns:ds", NsDs),
             << TextEl(1, u, "cbc:UBLVersionID", "", "2.1"),
                TextEl(1, u, "cbc:CustomizationID", "", "2.0"),
                TextEl(1, u, "cbc:ProfileID", "", "0101"),
                TextEl(1, u, "cbc:ID", "", doc.series \o "-" \o doc.number),
                TextEl(1, u, "cbc:IssueDate", "", doc.issueDate) >>
             \o OmitEl(1, u, "cbc:IssueTime", now)
             \o OmitEl(1, u, "cbc:DueDate", doc.dueDate)
             \o << TextEl(1, u, "cbc:InvoiceTypeCode", "", doc.type),
                   TextEl(1, u, "cbc:DocumentCurrencyCode", "", doc.currency),
                   TextEl(1, u, "cbc:LineCountNumeric", "", Digits(Len(doc.items))),
                   MarshalUBLSignatureB(1, u, doc),
                   convertPartyB(1, u, "cac:AccountingSupplierParty", doc.issuer),
                   convertPartyB(1, u, "cac:AccountingCustomerParty", doc.customer) >>
             \o convertTaxTotalsB(1, u, doc.taxes, doc.currency)
             \o << convertLegalMonetaryTotalB(1, u, doc.totals, doc.currency) >>
             \o convertInvoiceLinesB(1, u, doc.items, doc.currency))

\* Result of a call that returns ([]byte, error): err = "" stands for nil.
\* A call that does not return because it panics has panic # "".
Ok(bytes) == [bytes |-> bytes, err |-> "", panic |-> ""]
Fail(err) == [bytes |-> "", err |-> err, panic |-> ""]
Panic(msg) == [bytes |-> "", err |-> "", panic |-> msg]

\* item.Taxes[0] in convertInvoiceLines (part_001) is evaluated for every
\* item, with no check of the length of the list.
IndexOutOfRange(items) == \E i \in DOMAIN items : Len(items[i].taxes) = 0

\* ConvertToUBL with a fault: an unknown type is converted as an invoice.
ConvertToUBLDefaultInvoice(doc) ==
    CASE doc.type = "07" -> Ok(convertToCreditNote(doc))
      [] doc.type = "08" -> Ok(convertToDebitNote(doc))
      [] OTHER -> Ok(convertToInvoice(doc))

\* UBLConverter.ConvertToUBL (part_000)
ConvertToUBL(doc) ==
    CASE doc.type \in {"01", "03"} -> Ok(convertToInvoice(doc))
      [] doc.type = "07" -> Ok(convertToCreditNote(doc))
      [] doc.type = "08" -> Ok(convertToDebitNote(doc))
      [] OTHER -> Fail("unsupported document type: " \o doc.type)

\* UBLConverter.ConvertToUBL (part_001), whose note builders only return errors.
ConvertToUBLB(doc, now) ==
    CASE doc.type \in {"01", "03"} ->
           IF IndexOutOfRange(doc.items)
           THEN Panic("runtime error: index out of range [0] with length 0")
           ELSE Ok(convertToInvoiceB(doc, now))
      [] doc.type = "07" ->
           Fail("convertToCreditNote no implementado con las nuevas correcciones")
      [] doc.type = "08" ->
           Fail("convertToDebitNote no implementado con las nuevas correcciones")
      [] OTHER -> Fail("unsupported document type: " \o doc.type)

(***************************************************************************)
(* Digest, keys and encodings used by the signature service.  SHA-256 is   *)
(* a checksum over every byte of its input; RSA is textbook RSA over small *)
(* moduli; PKCS#1 v1.5 padding reduces the digest into the key's range.    *)
(***************************************************************************)

Alphabet ==
    "\n !#$%&'" \o "(" \o ")" \o "*" \o "+,-./0123456789:;<=>?@"
      \o "ABCDEFGHIJKLMNOPQRSTUVWXYZ[]^_abcdefghijklmnopqrstuvwxyz{|}~" \o Q

\* Byte value of a character.
CharCodes ==
    [c \in {SubSeq(Alphabet, i, i) : i \in 1..Len(Alphabet)} |-> Index(Alphabet, c) + 1]

CharCode(c) == IF c \in DOMAIN CharCodes THEN CharCodes[c] ELSE 0

RECURSIVE SumRange(_, _, _)
\* Position-weighted sum of the bytes lo..hi of s.
SumRange(s, lo, hi) ==
    IF lo = hi THEN (CharCode(SubSeq(s, lo, lo)) * ((lo % 509) + 1)) % 65521
    ELSE LET mid == (lo + hi) \div 2
         IN  (SumRange(s, lo, mid) + SumRange(s, mid + 1, hi)) % 65521

\* sha256.Sum256
Sum256(data) ==
    IF Len(data) = 0 THEN 1 ELSE (SumRange(data, 1, Len(data)) + Len(data)) % 65521

Base64Chars == "ABCDEFGHIJKLMNOPQRSTUVWXYZabcdefghijklmnopqrstuvwxyz0123456789+/"

Base64Digit(v) == SubSeq(Base64Chars, v + 1, v + 1)

\* base64.StdEncoding.EncodeToString of one value: three base-64 digits.
EncodeToString(n) ==
    Base64Digit((n \div 4096) % 64) \o Base64Digit((n \div 64) % 64) \o Base64Digit(n % 64)

\* base64.StdEncoding.DecodeString of three digits; -1 when the text is not base64.
DecodeString(text) ==
    LET v(i) == Index(Base64Chars, SubSeq(text, i, i))
    IN  IF Len(text) # 3 \/ \E i \in 1..3 : v(i) = -1 THEN -1
        ELSE v(1) * 4096 + v(2) * 64 + v(3)

HexChars == "0123456789abcdef"

\* hex.EncodeToString of one value: four hexadecimal digits.
HexEncodeToString(n) ==
    LET h(v) == SubSeq(HexChars, v + 1, v + 1)
    IN  h((n \div 4096) % 16) \o h((n \div 256) % 16) \o h((n \div 16) % 16) \o h(n % 16)

RECURSIVE ModExp(_, _, _)
\* b^e mod n by repeated squaring.
ModExp(b, e, n) ==
    IF e = 0 THEN 1 % n
    ELSE LET half == ModExp(b, e \div 2, n)
             sq   == (half * half) % n
         IN  IF e % 2 = 1 THEN (sq * (b % n)) % n ELSE sq

\* RSA key pairs: modulus n, public exponent e, private exponent d.
KeyPairs ==
    << [n |-> 3233, e |-> 17, d |-> 2753],
       [n |-> 2773, e |-> 17, d |-> 157] >>

\* rsa.SignPKCS1v15 with crypto.SHA256
SignPKCS1v15(priv, hashed) == ModExp(hashed % priv.n, priv.d, priv.n)

\* rsa.VerifyPKCS1v15
VerifyPKCS1v15(pub, hashed, sig) == sig < pub.n /\ ModExp(sig, pub.e, pub.n) = hashed % pub.n

\* A certificate file: whether pem.Decode finds a block, whether the block
\* parses as X.509, and the public key it certifies.
CertPEMs ==
    { [block |-> TRUE,  der |-> TRUE,  pair |-> 1],
      [block |-> TRUE,  der |-> TRUE,  pair |-> 2],
      [block |-> FALSE, der |-> FALSE, pair |-> 1],
      [block |-> TRUE,  der |-> FALSE, pair |-> 1] }

\* A private key file: whether pem.Decode finds a block, the encoding of the
\* block, the algorithm of a PKCS#8 key, and the key pair it belongs to.
KeyPEMs ==
    { [block |-> TRUE,  encoding |-> "PKCS1", algorithm |-> "RSA",   pair |-> 1],
      [block |-> TRUE,  encoding |-> "PKCS8", algorithm |-> "RSA",   pair |-> 1],
      [block |-> TRUE,  encoding |-> "PKCS1", algorithm |-> "RSA",   pair |-> 2],
      [block |-> TRUE,  encoding |-> "PKCS8", algorithm |-> "ECDSA", pair |-> 1],
      [block |-> TRUE,  encoding |-> "none",  algorithm |-> "RSA",   pair |-> 1],
      [block |-> FALSE, encoding |-> "none",  algorithm |-> "RSA",   pair |-> 1] }

\* cert.Raw encoded for the X509Certificate element.
CertBase64(cert) == EncodeToString(KeyPairs[cert.pair].n) \o EncodeToString(KeyPairs[cert.pair].e)

\* x509.ParseCertificate of the embedded text: the public key it carries.
PublicKeyOf(certBase64) ==
    [n |-> DecodeString(SubSeq(certBase64, 1, 3)), e |-> DecodeString(SubSeq(certBase64, 4, 6))]

\* DecodeKeyMaterial with a fault: a key that is not PKCS#1 is not tried as
\* PKCS#8.
DecodeKeyMaterialPKCS1Only(certPEM, keyPEM) ==
    IF ~certPEM.block THEN "failed to decode certificate PEM"
    ELSE IF ~certPEM.der THEN "failed to parse certificate"
    ELSE IF ~keyPEM.block THEN "failed to decode private key PEM"
    ELSE IF keyPEM.encoding = "PKCS1" THEN ""
    ELSE "failed to parse private key"

\* SignXML, first part: decoding the certificate and the key.  The error it
\* returns, "" when both are accepted.
DecodeKeyMaterial(certPEM, keyPEM) ==
    IF ~certPEM.block THEN "failed to decode certificate PEM"
    ELSE IF ~certPEM.der THEN "failed to parse certificate"
    ELSE IF ~keyPEM.block THEN "failed to decode private key PEM"
    ELSE IF keyPEM.encoding = "PKCS1" THEN ""
    ELSE IF keyPEM.encoding # "PKCS8" THEN "failed to parse private key"
    ELSE IF keyPEM.algorithm # "RSA" THEN "private key is not RSA"
    ELSE ""

\* The XMLSignature structure SignXML fills in; only signer.go and part_002
\* give it an Id.
NewXMLSignature(id, digestValue, signatureBase64, certBase64) ==
    [Id |-> id,
     CanonicalizationMethod |-> "http://www.w3.org/2001/10/xml-exc-c14n#",
     SignatureMethod |-> "http://www.w3.org/2001/04/xmldsig-more#rsa-sha256",
     URI |-> "",
     Transform |-> << "http://www.w3.org/2000/09/xmldsig#enveloped-signature",
                      "http://www.w3.org/2001/10/xml-exc-c14n#" >>,
     DigestMethod |-> "http://www.w3.org/2001/04/xmlenc#sha256",
     DigestValue |-> digestValue,
     SignatureValue |-> signatureBase64,
     X509Certificate |-> certBase64]

\* insertSignatureInXML with a fault: without a container and without an
\* Invoice tag the block is appended to the document.
insertSignatureInXMLAppending(xmlStr, xmlSignature) ==
    LET extensionsXML   == MarshalUBLExtensions(xmlSignature)
        endTag          == "</ext:UBLExtensions>"
        startIdx        == Index(xmlStr, "<ext:UBLExtensions")
        endIdx          == Index(xmlStr, endTag)
        invoiceStartIdx == Index(xmlStr, "<Invoice")
        invoiceEndIdx   == Index(SliceFrom(xmlStr, invoiceStartIdx), ">")
        insertPos       == invoiceStartIdx + invoiceEndIdx + 1
        tagEndIdx       == Index(SliceFrom(xmlStr, startIdx), ">")
    IN  IF startIdx = -1 \/ endIdx = -1
        THEN IF invoiceStartIdx = -1
             THEN Ok(xmlStr \o "\n" \o extensionsXML)
             ELSE Ok(Slice(xmlStr, 0, insertPos) \o "\n  " \o extensionsXML \o "\n"
                       \o SliceFrom(xmlStr, insertPos))
        ELSE Ok(Slice(xmlStr, 0, startIdx + tagEndIdx + 1) \o extensionsXML
                  \o SliceFrom(xmlStr, endIdx + Len(endTag)))

\* DigitalSignatureService.insertSignatureInXML
insertSignatureInXML(xmlStr, xmlSignature) ==
    LET extensionsXML   == MarshalUBLExtensions(xmlSignature)
        startTag        == "<ext:UBLExtensions"
        endTag          == "</ext:UBLExtensions>"
        startIdx        == Index(xmlStr, startTag)
        endIdx          == Index(xmlStr, endTag)
        invoiceStartIdx == Index(xmlStr, "<Invoice")
        invoiceEndIdx   == Index(SliceFrom(xmlStr, invoiceStartIdx), ">")
        insertPos       == invoiceStartIdx + invoiceEndIdx + 1
        tagEndIdx       == Index(SliceFrom(xmlStr, startIdx), ">")
    IN  IF startIdx = -1 \/ endIdx = -1
        THEN IF invoiceStartIdx = -1
             THEN Fail("No se encontró el tag Invoice en el XML")
             ELSE IF invoiceEndIdx = -1
             THEN Fail("No se encontró el cierre del tag Invoice")
             ELSE Ok(Slice(xmlStr, 0, insertPos) \o "\n  " \o extensionsXML \o "\n"
                       \o SliceFrom(xmlStr, insertPos))
        ELSE IF tagEndIdx = -1
        THEN Fail("No se encontró el cierre del tag ext:UBLExtensions")
        ELSE Ok(Slice(xmlStr, 0, startIdx + tagEndIdx + 1) \o extensionsXML
                  \o SliceFrom(xmlStr, endIdx + Len(endTag)))

\* DigitalSignatureService.insertSignatureInXML (part_001): the block goes
\* right after the XML declaration.
insertSignatureInXMLB(xmlStr, xmlSignature) ==
    LET extensionsXML == MarshalUBLExtensions(xmlSignature)
        xmlDeclEnd    == Index(xmlStr, "?>")
    IN  IF xmlDeclEnd = -1 THEN Fail("XML declaration not found")
        ELSE Ok(Slice(xmlStr, 0, xmlDeclEnd + 2) \o "\n" \o extensionsXML
                  \o SliceFrom(xmlStr, xmlDeclEnd + 2))

\* The block part_002 formats as text.
SprintfExtensions(sig) ==
    LET alg(pad, tag, a) == pad \o "<" \o tag \o " Algorithm=" \o Q \o a \o Q \o "/>"
    IN  Join(<<
        "<UBLExtensions xmlns=" \o Q \o NsExt \o Q \o ">",
        "  <UBLExtension>",
        "    <ExtensionContent>",
        "      <Signature xmlns=" \o Q \o NsDs \o Q \o " Id=" \o Q \o sig.Id \o Q \o ">",
        "        <SignedInfo>",
        alg("          ", "CanonicalizationMethod", sig.CanonicalizationMethod),
        alg("          ", "SignatureMethod", sig.SignatureMethod),
        "          <Reference URI=" \o Q \o sig.URI \o Q \o ">",
        "            <Transforms>",
        alg("              ", "Transform", sig.Transform[1]),
        alg("              ", "Transform", sig.Transform[2]),
        "            </Transforms>",
        alg("            ", "DigestMethod", sig.DigestMethod),
        "            <DigestValue>" \o sig.DigestValue \o "</DigestValue>",
        "          </Reference>",
        "        </SignedInfo>",
        "        <SignatureValue>" \o sig.SignatureValue \o "</SignatureValue>",
        "        <KeyInfo>",
        "          <X509Data>",
        "            <X509Certificate>" \o sig.X509Certificate \o "</X509Certificate>",
        "          </X509Data>",
        "        </KeyInfo>",
        "      </Signature>",
        "    </ExtensionContent>",
        "  </UBLExtension>",
        "</UBLExtensions>" >>)

\* DigitalSignatureService.insertSignatureInXML (part_002): an existing
\* block is looked for without and then with the ext: prefix.
insertSignatureInXMLC(xmlStr, xmlSignature) ==
    LET extensionsXML == SprintfExtensions(xmlSignature)
        plain     == Index(xmlStr, "<UBLExtensions") # -1 /\ Index(xmlStr, "</UBLExtensions>") # -1
        startTag  == IF plain THEN "<UBLExtensions" ELSE "<ext:UBLExtensions"
        endTag    == IF plain THEN "</UBLExtensions>" ELSE "</ext:UBLExtensions>"
        startIdx  == Index(xmlStr, startTag)
        endIdx    == Index(xmlStr, endTag)
        tagEndIdx == Index(SliceFrom(xmlStr, startIdx), ">")
    IN  IF startIdx = -1 \/ endIdx = -1
        THEN Fail("No se encontró el bloque UBLExtensions en el XML")
        ELSE IF tagEndIdx = -1
        THEN Fail("No se encontró el cierre del tag UBLExtensions")
        ELSE Ok(Slice(xmlStr, 0, startIdx + tagEndIdx + 1) \o extensionsXML
                  \o SliceFrom(xmlStr, endIdx + Len(endTag)))

\* UBLConverterService.addUBLSignature
addUBLSignature(xmlStr, doc) ==
    LET ublVersionEnd == Index(xmlStr, "</cbc:UBLVersionID>")
        signatureXML  == MarshalUBLSignature(0, "  ", doc.series \o "-" \o doc.number,
                                             doc.issuer.documentID, doc.issuer.name)
        cut           == ublVersionEnd + Len("</cbc:UBLVersionID>")
    IN  IF ublVersionEnd = -1 THEN Fail("UBLVersionID not found")
        ELSE Ok(Slice(xmlStr, 0, cut) \o "\n" \o signatureXML \o SliceFrom(xmlStr, cut))

(***************************************************************************)
(* The conversion request as a state machine: ConvertDocument (handler.go) *)
(* calls ProcessDocument, which calls the validator, the converter,        *)
(* addUBLSignature, SignXML, os.WriteFile and ZipXMLFile in turn.          *)
(***************************************************************************)

GoodCert == [block |-> TRUE, der |-> TRUE, pair |-> 1]
GoodKey  == [block |-> TRUE, encoding |-> "PKCS1", algorithm |-> "RSA", pair |-> 1]

\* The body of a POST /convert request: whether it binds as JSON, whether
\* the two base64 fields decode, and what they and the document hold.
Request(json, certB64, keyB64, doc, cert, key) ==
    [json |-> json, certB64 |-> certB64, keyB64 |-> keyB64,
     document |-> doc, certificate |-> cert, privateKey |-> key]

Requests ==
    { Request(TRUE, TRUE, TRUE, d, GoodCert, GoodKey) : d \in Docs }
    \cup { Request(TRUE, TRUE, TRUE, MkDoc(t, TRUE, 1, "none"), c, k) :
             t \in {"01", "07"}, c \in CertPEMs, k \in KeyPEMs }
    \cup { Request(j, c, k, MkDoc("01", FALSE, 1, "none"), GoodCert, GoodKey) :
             j \in BOOLEAN, c \in BOOLEAN, k \in BOOLEAN }
    \cup { Request(TRUE, TRUE, TRUE, TaxesPerItem(MkDoc(t, t = "07", MaxItems, "none")),
                    GoodCert, GoodKey) : t \in {"01", "07"} }
    \cup { Request(TRUE, TRUE, TRUE, d, GoodCert, GoodKey) :
             d \in { WithoutItemTaxes(MkDoc("01", FALSE, MaxItems, "none")),
                     WithoutTaxes(MkDoc("01", FALSE, 1, "none")) } }

\* APIResponse
APIResponse(status, errorCode, errorMessage) ==
    [Status |-> status, ErrorCode |-> errorCode, ErrorMessage |-> errorMessage,
     ValidationErrors |-> << >>, DocumentID |-> "", XMLPath |-> "", XMLHash |-> "",
     fileName |-> "", fileSize |-> 0, zipSize |-> 0]

NoResponse == APIResponse("", "", "")

xmlStorePath == "./xml_output"

\* The file name ProcessDocument stores the signed XML under.
FileName(doc) ==
    doc.issuer.documentID \o "-" \o doc.type \o "-" \o doc.series \o "-" \o doc.number \o ".xml"

\* filepath.Join(xmlStorePath, fileName): Join cleans the leading "./" away.
FilePath(doc) == "xml_output/" \o FileName(doc)

\* ZipXMLFile's zipPath: the path with its last four bytes replaced by ".zip".
ZipPath(xmlPath) == Slice(xmlPath, 0, Len(xmlPath) - 4) \o ".zip"

\* filepath.Base of a stored file's path.
Base(path) == SliceFrom(path, Len("xml_output/"))

\* A file system after writing one file.
WriteFile(fs, path, content) ==
    [f \in DOMAIN fs \cup {path} |-> IF f = path THEN content ELSE fs[f]]

\* The revisions of the service (with its converter) and of the signature
\* service that the sources hold; a build has one of each.
Services == {"part_000", "part_001"}
Signers  == {"signer.go", "part_001", "part_002"}

\* What time.Now() can format to while a request is served.
Clock == {"10:30:00", "10:30:01"}

VARIABLES
    build,             \* the revisions the running build was made from
    pc,                \* the call the request is about to make
    request,           \* the request being served
    stages,            \* the pipeline stages ProcessDocument has run, in order
    validationErrors,  \* what ValidateBusinessDocument returned
    xmlData,           \* ProcessDocument's xmlData
    xmlContent,        \* SignXML's xmlContent parameter
    sigState,          \* Unsigned, Digested, Signed or Embedded
    hash,              \* SignXML's hash
    xmlSignature,      \* SignXML's xmlSignature
    signedXML,         \* ProcessDocument's signedXML
    files,             \* the XML store: path -> content
    zips,              \* the ZIP archives: path -> entries (name, content)
    response,          \* the APIResponse ProcessDocument returned
    http               \* the status code and body written to the client

vars == << build, pc, request, stages, validationErrors, xmlData, xmlContent, sigState, hash,
           xmlSignature, signedXML, files, zips, response, http >>

NoFiles == [f \in {} |-> ""]

Init ==
    /\ build \in [service : Services, signer : Signers]
    /\ pc = "ConvertDocument"
    /\ request \in Requests
    /\ stages = << >>
    /\ validationErrors = << >>
    /\ xmlData = ""
    /\ xmlContent = ""
    /\ sigState = "Unsigned"
    /\ hash = 0
    /\ xmlSignature = EmptyXMLSignature
    /\ signedXML = ""
    /\ files = NoFiles
    /\ zips = NoFiles
    /\ response = NoResponse
    /\ http = [status |-> 0, body |-> NoResponse]

\* ProcessDocument returns resp to the handler.
Return(resp) == response' = resp /\ pc' = "Respond"

\* ConvertDocument up to the call of ProcessDocument: the body is bound and
\* the certificate and the key are base64-decoded.
Bind ==
    /\ pc = "ConvertDocument"
    /\ IF ~request.json
       THEN /\ http' = [status |-> 400,
                        body |-> APIResponse("error", "ERR_INVALID_REQUEST",
                                             "Invalid request format")]
            /\ pc' = "Done"
       ELSE IF ~request.certB64
       THEN /\ http' = [status |-> 400,
                        body |-> APIResponse("error", "ERR_INVALID_CERTIFICATE",
                                             "Invalid certificate format")]
            /\ pc' = "Done"
       ELSE IF ~request.keyB64
       THEN /\ http' = [status |-> 400,
                        body |-> APIResponse("error", "ERR_INVALID_PRIVATE_KEY",
                                             "Invalid private key format")]
            /\ pc' = "Done"
       ELSE /\ pc' = "Validate"
            /\ UNCHANGED http
    /\ UNCHANGED << build, request, stages, validationErrors, xmlData, xmlContent, sigState,
                    hash, xmlSignature, signedXML, files, zips, response >>

\* Validate with a fault: a single validation error does not end the request.
ValidateTolerant ==
    /\ pc = "Validate"
    /\ stages' = Append(stages, "validate")
    /\ validationErrors' = ValidateBusinessDocument(request.document)
    /\ IF Len(validationErrors') > 1
       THEN Return([APIResponse("ERROR", "VALIDATION_FAILED", "Documento no válido")
                      EXCEPT !.ValidationErrors = validationErrors'])
       ELSE pc' = "Convert" /\ UNCHANGED response
    /\ UNCHANGED << build, request, xmlData, xmlContent, sigState, hash, xmlSignature,
                    signedXML, files, zips, http >>

\* ProcessDocument: the validator is called and its errors end the request.
Validate ==
    /\ pc = "Validate"
    /\ stages' = Append(stages, "validate")
    /\ validationErrors' = ValidateBusinessDocument(request.document)
    /\ IF Len(validationErrors') > 0
       THEN Return([APIResponse("ERROR", "VALIDATION_FAILED", "Documento no válido")
                      EXCEPT !.ValidationErrors = validationErrors'])
       ELSE pc' = "Convert" /\ UNCHANGED response
    /\ UNCHANGED << build, request, xmlData, xmlContent, sigState, hash, xmlSignature,
                    signedXML, files, zips, http >>

\* ProcessDocument: ConvertToUBL.  Only part_000 goes on to addUBLSignature.
\* A panic of the converter unwinds ProcessDocument and ConvertDocument
\* and is caught by gin.Recovery (router.go), which answers 500 with no body.
Convert ==
    /\ pc = "Convert"
    /\ stages' = Append(stages, "convert")
    /\ \E now \in Clock :
          LET r == IF build.service = "part_000"
                   THEN ConvertToUBL(request.document)
                   ELSE ConvertToUBLB(request.document, now)
          IN  IF r.panic # ""
              THEN /\ pc' = "Done"
                   /\ http' = [status |-> 500, body |-> NoResponse]
                   /\ UNCHANGED << xmlData, response >>
              ELSE IF r.err # ""
              THEN /\ Return(APIResponse("ERROR", "CONVERSION_FAILED",
                                         "Error en conversión UBL: " \o r.err))
                   /\ UNCHANGED << xmlData, http >>
              ELSE /\ pc' = IF build.service = "part_000" THEN "AddUBLSignature"
                                                          ELSE "SignXML"
                   /\ xmlData' = r.bytes
                   /\ UNCHANGED << response, http >>
    /\ UNCHANGED << build, request, validationErrors, xmlContent, sigState, hash, xmlSignature,
                    signedXML, files, zips >>

\* ProcessDocument: addUBLSignature rewrites xmlData.
AddUBLSignature ==
    /\ pc = "AddUBLSignature"
    /\ stages' = Append(stages, "addUBLSignature")
    /\ LET r == addUBLSignature(xmlData, request.document)
       IN  IF r.err # ""
           THEN /\ Return(APIResponse("ERROR", "UBL_SIGNATURE_FAILED",
                                      "Error al agregar firma UBL: " \o r.err))
                /\ xmlData' = ""
           ELSE pc' = "SignXML" /\ xmlData' = r.bytes /\ UNCHANGED response
    /\ UNCHANGED << build, request, validationErrors, xmlContent, sigState, hash, xmlSignature,
                    signedXML, files, zips, http >>

\* DecodeKeys with a fault: the failure is recorded but SignXML goes on.
DecodeKeysWithoutReturn ==
    /\ pc = "SignXML"
    /\ stages' = Append(stages, "sign")
    /\ xmlContent' = xmlData
    /\ LET err == DecodeKeyMaterial(request.certificate, request.privateKey)
       IN  IF err # ""
           THEN /\ response' = APIResponse("ERROR", "SIGNATURE_FAILED",
                                           "Error en firma digital: " \o err)
                /\ pc' = "Digest"
           ELSE pc' = "Digest" /\ UNCHANGED response
    /\ UNCHANGED << build, request, validationErrors, xmlData, sigState, hash, xmlSignature,
                    signedXML, files, zips, http >>

\* SignXML is entered with xmlData; the certificate and the key are decoded.
DecodeKeys ==
    /\ pc = "SignXML"
    /\ stages' = Append(stages, "sign")
    /\ xmlContent' = xmlData
    /\ LET err == DecodeKeyMaterial(request.certificate, request.privateKey)
       IN  IF err # ""
           THEN Return(APIResponse("ERROR", "SIGNATURE_FAILED",
                                   "Error en firma digital: " \o err))
           ELSE pc' = "Digest" /\ UNCHANGED response
    /\ UNCHANGED << build, request, validationErrors, xmlData, sigState, hash, xmlSignature,
                    signedXML, files, zips, http >>

\* Digest with a fault: the digest leaves the XML declaration out.
DigestWithoutDeclaration ==
    /\ pc = "Digest"
    /\ hash' = Sum256(SliceFrom(xmlContent, Len(xmlDeclaration)))
    /\ sigState' = "Digested"
    /\ pc' = "Sign"
    /\ UNCHANGED << build, request, stages, validationErrors, xmlData, xmlContent, xmlSignature,
                    signedXML, files, zips, response, http >>

\* SignXML: hash := sha256.Sum256(xmlContent)
Digest ==
    /\ pc = "Digest"
    /\ hash' = Sum256(xmlContent)
    /\ sigState' = "Digested"
    /\ pc' = "Sign"
    /\ UNCHANGED << build, request, stages, validationErrors, xmlData, xmlContent, xmlSignature,
                    signedXML, files, zips, response, http >>

\* Sign with a fault: the padding of the digest is drawn at random.
SignRandomized ==
    /\ pc = "Sign"
    /\ \E salt \in {0, 1} :
          LET privateKey == KeyPairs[request.privateKey.pair]
              signature  == SignPKCS1v15(privateKey, hash + salt)
              id         == IF build.signer = "part_001" THEN "" ELSE "SignatureSP"
          IN  xmlSignature' = NewXMLSignature(id, EncodeToString(hash),
                                              EncodeToString(signature),
                                              CertBase64(request.certificate))
    /\ sigState' = "Signed"
    /\ pc' = "Embed"
    /\ UNCHANGED << build, request, stages, validationErrors, xmlData, xmlContent, hash,
                    signedXML, files, zips, response, http >>

\* SignXML: the hash is signed and the XMLSignature structure is filled in.
Sign ==
    /\ pc = "Sign"
    /\ LET privateKey == KeyPairs[request.privateKey.pair]
           signature  == SignPKCS1v15(privateKey, hash)
           id         == IF build.signer = "part_001" THEN "" ELSE "SignatureSP"
       IN  xmlSignature' = NewXMLSignature(id, EncodeToString(hash),
                                           EncodeToString(signature),
                                           CertBase64(request.certificate))
    /\ sigState' = "Signed"
    /\ pc' = "Embed"
    /\ UNCHANGED << build, request, stages, validationErrors, xmlData, xmlContent, hash,
                    signedXML, files, zips, response, http >>

\* SignXML: insertSignatureInXML, and the return to ProcessDocument.
Embed ==
    /\ pc = "Embed"
    /\ LET r == CASE build.signer = "signer.go" ->
                        insertSignatureInXML(xmlContent, xmlSignature)
                   [] build.signer = "part_001" ->
                        insertSignatureInXMLB(xmlContent, xmlSignature)
                   [] OTHER ->
                        insertSignatureInXMLC(xmlContent, xmlSignature)
       IN  IF r.err # ""
           THEN /\ Return(APIResponse("ERROR", "SIGNATURE_FAILED",
                            "Error en firma digital: failed to insert signature: " \o r.err))
                /\ UNCHANGED << signedXML, sigState >>
           ELSE /\ signedXML' = r.bytes
                /\ sigState' = "Embedded"
                /\ pc' = "Save"
                /\ UNCHANGED response
    /\ UNCHANGED << build, request, stages, validationErrors, xmlData, xmlContent, hash,
                    xmlSignature, files, zips, http >>

\* A store step that writes the document as it was before the signature
\* went in.
SaveUnsigned ==
    /\ pc = "Save"
    /\ stages' = Append(stages, "store")
    /\ \E written \in BOOLEAN :
          IF written
          THEN /\ files' = WriteFile(files, FilePath(request.document), xmlContent)
               /\ pc' = "Zip"
               /\ UNCHANGED response
          ELSE /\ Return(APIResponse("ERROR", "SAVE_FAILED",
                                     "Error al guardar archivo: write failed"))
               /\ UNCHANGED files
    /\ UNCHANGED << build, request, validationErrors, xmlData, xmlContent, sigState, hash,
                    xmlSignature, signedXML, zips, http >>

\* ProcessDocument: os.WriteFile of the signed XML, which may fail.
Save ==
    /\ pc = "Save"
    /\ stages' = Append(stages, "store")
    /\ \E written \in BOOLEAN :
          IF written
          THEN /\ files' = WriteFile(files, FilePath(request.document), signedXML)
               /\ pc' = "Zip"
               /\ UNCHANGED response
          ELSE /\ Return(APIResponse("ERROR", "SAVE_FAILED",
                                     "Error al guardar archivo: write failed"))
               /\ UNCHANGED files
    /\ UNCHANGED << build, request, validationErrors, xmlData, xmlContent, sigState, hash,
                    xmlSignature, signedXML, zips, http >>

\* ProcessDocument: ZipXMLFile.  os.Create may fail; once the archive exists,
\* opening or copying the XML file may fail and leave it empty.
Zip ==
    /\ pc = "Zip"
    /\ stages' = Append(stages, "package")
    /\ LET xmlPath == FilePath(request.document)
           zipPath == ZipPath(xmlPath)
       IN  \E outcome \in {"ok", "create fails", "copy fails"} :
              CASE outcome = "ok" ->
                     /\ zips' = WriteFile(zips, zipPath,
                                   << [name |-> Base(xmlPath), content |-> files[xmlPath]] >>)
                     /\ pc' = "Succeed"
                     /\ UNCHANGED response
                [] outcome = "create fails" ->
                     /\ Return(APIResponse("ERROR", "ZIP_FAILED",
                                           "Error al crear ZIP: create failed"))
                     /\ UNCHANGED zips
                [] OTHER ->
                     /\ zips' = WriteFile(zips, zipPath, << >>)
                     /\ Return(APIResponse("ERROR", "ZIP_FAILED",
                                           "Error al crear ZIP: copy failed"))
    /\ UNCHANGED << build, request, validationErrors, xmlData, xmlContent, sigState, hash,
                    xmlSignature, signedXML, files, http >>

\* getFileSize of an archive.
getFileSize(zipPath) ==
    IF zipPath \in DOMAIN zips /\ Len(zips[zipPath]) > 0
    THEN Len(zips[zipPath][1].content)
    ELSE 0

\* ProcessDocument: the hash of the signed XML and the success response.
Succeed ==
    /\ pc = "Succeed"
    /\ LET doc     == request.document
           zipPath == ZipPath(FilePath(doc))
       IN  Return([APIResponse("SUCCESS", "", "") EXCEPT
                     !.DocumentID = Slice(FileName(doc), 0, Len(FileName(doc)) - 4),
                     !.XMLPath    = zipPath,
                     !.XMLHash    = HexEncodeToString(Sum256(signedXML)),
                     !.fileName   = FileName(doc),
                     !.fileSize   = Len(signedXML),
                     !.zipSize    = getFileSize(zipPath)])
    /\ UNCHANGED << build, request, stages, validationErrors, xmlData, xmlContent, sigState,
                    hash, xmlSignature, signedXML, files, zips, http >>

\* ConvertDocument after ProcessDocument returned (its error is always nil):
\* the status code is chosen from response.Status and the body is written.
Respond ==
    /\ pc = "Respond"
    /\ LET statusCode == IF response.Status = "error" THEN 400 ELSE 200
       IN  http' = [status |-> statusCode, body |-> response]
    /\ pc' = "Done"
    /\ UNCHANGED << build, request, stages, validationErrors, xmlData, xmlContent, sigState,
                    hash, xmlSignature, signedXML, files, zips, response >>

Next ==
    \/ Bind
    \/ Validate
    \/ Convert
    \/ AddUBLSignature
    \/ DecodeKeys
    \/ Digest
    \/ Sign
    \/ Embed
    \/ Save
    \/ Zip
    \/ Succeed
    \/ Respond

Spec == Init /\ [][Next]_vars

(***************************************************************************)
(* Properties of the signature insertion.                                  *)
(***************************************************************************)

\* The opening and the closing tag of the extension container.
ContainerOpen  == "<ext:UBLExtensions"
ContainerClose == "</ext:UBLExtensions>"

\* Where the signature value of the request is written in a document.
SignatureValueAt(xml) ==
    Index(xml, "SignatureValue>" \o xmlSignature.SignatureValue \o "<")

\* SignXML returned a signed document for an input that had a container.
EmbeddedOverContainer ==
    sigState = "Embedded" /\ Index(xmlContent, ContainerOpen) # -1

\* C1: embedding into a document that already has an ext:UBLExtensions
\* container leaves exactly one opening tag and exactly one closing tag of
\* the container, and the new signature block lies between the two.
C1_ReplacesContainer ==
    EmbeddedOverContainer =>
        /\ Count(signedXML, ContainerOpen) = 1
        /\ Count(signedXML, ContainerClose) = 1
        /\ Index(signedXML, ContainerOpen) < SignatureValueAt(signedXML)
        /\ SignatureValueAt(signedXML) < Index(signedXML, ContainerClose)

\* The element name of the root of a document of a type.
RootName(type) ==
    CASE type = "07" -> "CreditNote"
      [] type = "08" -> "DebitNote"
      [] OTHER       -> "Invoice"

\* The smaller of two indexes, where -1 says that there is none.
Earlier(a, b) == IF a = -1 THEN b ELSE IF b = -1 THEN a ELSE IF a < b THEN a ELSE b

\* Where the container that holds the signature begins: the last opening
\* tag of a container, with or without the prefix, before the signature.
ContainerStart(xml) ==
    LET before == Slice(xml, 0, SignatureValueAt(xml))
        Last(tag) == IF Count(before, tag) = 0 THEN -1
                     ELSE CHOOSE i \in 0..(Len(before) - 1) :
                              /\ MatchAt(before, tag, i)
                              /\ Index(SliceFrom(before, i + 1), tag) = -1
        prefixed == Last(ContainerOpen)
        plain    == Last("<UBLExtensions")
    IN  IF SignatureValueAt(xml) = -1 THEN -1
        ELSE IF prefixed # -1 THEN prefixed ELSE plain

\* The index just after the opening tag of the root element, or -1.
RootOpenEnd(xml, type) ==
    LET root == Index(xml, "<" \o RootName(type))
    IN  IF root = -1 THEN -1 ELSE root + Index(SliceFrom(xml, root), ">") + 1

\* C2: in the signed document the container of the signature is the first
\* child of the root element: it begins after the root's opening tag, with
\* no other element between the two, and before cbc:UBLVersionID.
C2_ContainerFirstChild ==
    sigState = "Embedded" =>
        LET open      == RootOpenEnd(signedXML, request.document.type)
            container == ContainerStart(signedXML)
            version   == Index(signedXML, "<cbc:UBLVersionID")
        IN  /\ open # -1
            /\ container # -1
            /\ open <= container
            /\ open + Index(SliceFrom(signedXML, open), "<") = container
            /\ version # -1 => container < version

\* A document without its container: the bytes from the first opening tag
\* of a container through the closing tag that matches it are removed.  A
\* document without such a pair is left as it is.
StripContainer(xml) ==
    LET prefixed == Index(xml, ContainerOpen)
        plain    == Index(xml, "<UBLExtensions")
        start    == Earlier(prefixed, plain)
        endTag   == IF start = prefixed THEN ContainerClose ELSE "</UBLExtensions>"
        rest     == SliceFrom(xml, IF start = -1 THEN 0 ELSE start)
        stop     == Index(rest, endTag)
    IN  IF start = -1 \/ stop = -1 THEN xml
        ELSE Slice(xml, 0, start) \o SliceFrom(rest, stop + Len(endTag))

\* C3: the signed document without its container is, byte for byte, the
\* document SignXML was given without its container.
C3_OutsideContainerPreserved ==
    sigState = "Embedded" =>
        StripContainer(signedXML) = StripContainer(xmlContent)

(***************************************************************************)
(* Properties of the digest and of the signature value.                    *)
(***************************************************************************)

\* The text of the first element of a document whose tag ends in a name.
TextOf(xml, name) ==
    LET at   == Index(xml, name \o ">")
        from == SliceFrom(xml, at + Len(name) + 1)
    IN  IF at = -1 THEN "" ELSE Slice(from, 0, Index(from, "<"))

\* The steps the signature of one request goes through.
SignatureSteps ==
    { << "Unsigned", "Digested" >>, << "Digested", "Signed" >>, << "Signed", "Embedded" >> }

\* C4: the signature only moves Unsigned -> Digested -> Signed -> Embedded;
\* from the digest on, the bytes given to SignXML do not change; and the
\* DigestValue of the signed document is the digest of exactly those bytes.
C4_DigestBeforeEmbed ==
    [][ /\ sigState' # sigState => << sigState, sigState' >> \in SignatureSteps
        /\ sigState # "Unsigned" => xmlContent' = xmlContent /\ hash' = hash
        /\ sigState = "Signed" /\ sigState' = "Embedded" =>
              TextOf(signedXML', "DigestValue") = EncodeToString(Sum256(xmlContent))
      ]_vars

\* C4 witness: a signature was embedded into a document that had been
\* digested, and the request went on to store it.
C4_Witness ==
    /\ sigState = "Embedded"
    /\ pc = "Save"
    /\ TextOf(signedXML, "DigestValue") = EncodeToString(hash)

\* C5: whenever SignXML returned a signed document, the SignatureValue in
\* it verifies, over the digest of the bytes SignXML was given, with the
\* public key of the certificate in its X509Certificate element.
C5_EmbeddedSignatureVerifies ==
    sigState = "Embedded" =>
        VerifyPKCS1v15(PublicKeyOf(TextOf(signedXML, "X509Certificate")),
                       Sum256(xmlContent),
                       DecodeString(TextOf(signedXML, "SignatureValue")))

(***************************************************************************)
(* Properties of the pipeline: ProcessDocument and ConvertDocument.        *)
(***************************************************************************)

\* The type codes of the supported documents.
Supported == {"01", "03", "07", "08"}

\* The request decodes, its document passes validation, a credit or debit
\* note names its reference, and the key is an RSA key of the certificate.
ValidSignedRequest ==
    /\ request.json /\ request.certB64 /\ request.keyB64
    /\ request.document.type \in Supported
    /\ Len(ValidateBusinessDocument(request.document)) = 0
    /\ request.document.type \in {"07", "08"} => request.document.reference # NULL
    /\ DecodeKeyMaterial(request.certificate, request.privateKey) = ""
    /\ request.certificate.pair = request.privateKey.pair

\* C6: the request of a valid document of a supported type, signed with a
\* valid RSA key and its certificate, is not answered before the signature
\* is embedded in a document whose root is the element of its type.
C6_ValidDocumentEmbedded ==
    pc = "Done" /\ ValidSignedRequest =>
        /\ sigState = "Embedded"
        /\ RootOpenEnd(signedXML, request.document.type) # -1

\* The document is a credit or debit note without a reference.
NullReferenceNote ==
    request.document.type \in {"07", "08"} /\ request.document.reference = NULL

\* C7: for a credit or debit note without a reference no XML is produced,
\* signed or stored, and ProcessDocument answers with a failure.
C7_NullReferenceRejected ==
    NullReferenceNote =>
        /\ xmlData = ""
        /\ signedXML = ""
        /\ files = NoFiles
        /\ pc = "Done" /\ stages # << >> => response.Status = "ERROR"

\* C8: for a type code other than 01, 03, 07 and 08 ConvertToUBL returns
\* the unsupported-type error and no bytes, and ProcessDocument never signs,
\* stores or packages the document.
C8_UnsupportedTypeRejected ==
    LET doc         == request.document
        unsupported == Fail("unsupported document type: " \o doc.type)
    IN  doc.type \notin Supported =>
            /\ ConvertToUBL(doc) = unsupported
            /\ \A now \in Clock : ConvertToUBLB(doc, now) = unsupported
            /\ \A i \in DOMAIN stages : stages[i] \notin {"sign", "store", "package"}
            /\ xmlData = ""
            /\ signedXML = ""
            /\ files = NoFiles
            /\ zips = NoFiles

\* C8 witness: a request for a document of an unsupported type was served
\* and the converter refuses the document.
C8_Witness ==
    /\ request.document.type \notin Supported
    /\ pc = "Done"
    /\ stages # << >>
    /\ ConvertToUBL(request.document).err = "unsupported document type: " \o request.document.type
    /\ ConvertToUBL(request.document).bytes = ""

\* C9: when the validator returns errors for the document, ProcessDocument
\* runs no stage after validation and returns the validation failure with
\* exactly those errors.
C9_ValidationStopsPipeline ==
    LET errors == ValidateBusinessDocument(request.document)
    IN  Len(errors) > 0 =>
            /\ \A i \in DOMAIN stages : stages[i] = "validate"
            /\ xmlData = ""
            /\ xmlContent = ""
            /\ sigState = "Unsigned"
            /\ signedXML = ""
            /\ files = NoFiles
            /\ zips = NoFiles
            /\ pc \in {"Respond", "Done"} /\ stages # << >> =>
                  /\ response.Status = "ERROR"
                  /\ response.ErrorCode = "VALIDATION_FAILED"
                  /\ response.ValidationErrors = errors

\* C9 witness: ProcessDocument returned the validation failure of a
\* document with a validation error.
C9_Witness ==
    /\ pc = "Respond"
    /\ stages = << "validate" >>
    /\ Len(validationErrors) > 0
    /\ response.ErrorCode = "VALIDATION_FAILED"
    /\ response.ValidationErrors = validationErrors

\* C10: every failure ProcessDocument returns is written to the client with
\* an HTTP status that is no success status, an error code and a message.
C10_FailureReachesClient ==
    pc = "Done" /\ response.Status = "ERROR" =>
        /\ http.status >= 400
        /\ http.body.ErrorCode # ""
        /\ http.body.ErrorMessage # ""

\* The stages the claim names, in their order.
Pipeline == << "validate", "convert", "sign", "store", "package" >>

\* The stages of Pipeline that ProcessDocument has run, in the order run.
PipelineRun == SelectSeq(stages, LAMBDA st : st \in {Pipeline[i] : i \in DOMAIN Pipeline})

\* ProcessDocument returned a failure.
Failed == response.Status = "ERROR"

\* C11: the stages run in the order validate, convert, sign, store, package,
\* each at most once; after a failure no stage runs and nothing more is
\* written; a failed SignXML leaves no signed bytes; and a conversion that
\* failed before the store stage has written no file and no archive.
C11_StagesInOrderErrorsTerminal ==
    [][ /\ PipelineRun' = SubSeq(Pipeline, 1, Len(PipelineRun'))
        /\ Failed => /\ stages' = stages
                     /\ response' = response
                     /\ signedXML' = signedXML
                     /\ files' = files
                     /\ zips' = zips
        /\ Failed' /\ response'.ErrorCode = "SIGNATURE_FAILED" => signedXML' = ""
        /\ Failed' /\ (\A i \in DOMAIN stages' : stages'[i] # "store") =>
              files' = NoFiles /\ zips' = NoFiles
      ]_vars

\* C11 witness: SignXML failed after validation and conversion had run, and
\* the request was answered with nothing stored.
C11_Witness ==
    /\ pc = "Done"
    /\ response.ErrorCode = "SIGNATURE_FAILED"
    /\ PipelineRun = << "validate", "convert", "sign" >>
    /\ signedXML = ""
    /\ files = NoFiles

\* A document has both tags of a container, written with a prefix or not.
HasContainer(xml, prefix) ==
    /\ Index(xml, "<" \o prefix \o "UBLExtensions") # -1
    /\ Index(xml, "</" \o prefix \o "UBLExtensions>") # -1

\* A document has the text that the signature service of a revision splices
\* at: signer.go a prefixed container or the Invoice tag, part_002 a
\* container, part_001 the end of the XML declaration.
AnchorPresent(signer, xml) ==
    CASE signer = "signer.go" -> HasContainer(xml, "ext:") \/ Index(xml, "<Invoice") # -1
      [] signer = "part_002"  -> HasContainer(xml, "") \/ HasContainer(xml, "ext:")
      [] OTHER                -> Index(xml, "?>") # -1

\* Documents without a container and without an Invoice root.
AnchorlessDocuments ==
    { "",
      xmlDeclaration,
      xmlDeclaration \o "<CreditNote>\n  <cbc:UBLVersionID>2.1</cbc:UBLVersionID>\n</CreditNote>",
      xmlDeclaration \o "<DebitNote>\n  <ext:UBLExtensions>\n</DebitNote>" }

\* insertSignatureInXML of a revision.
InsertBy(signer, xml, sig) ==
    CASE signer = "signer.go" -> insertSignatureInXML(xml, sig)
      [] signer = "part_001"  -> insertSignatureInXMLB(xml, sig)
      [] OTHER                -> insertSignatureInXMLC(xml, sig)

\* C12: when the document has no anchor for the signature block, the
\* embedding fails and returns no bytes: SignXML of such a document never
\* reaches Embedded, it ends with the signature failure and without signed
\* bytes; and the same holds for insertSignatureInXML of signer.go and of
\* part_002 on every document without a container and an Invoice root.
C12_NoAnchorNoBytes ==
    LET anchored == AnchorPresent(build.signer, xmlContent)
    IN  /\ sigState = "Embedded" /\ pc = "Save" => anchored
        /\ sigState = "Signed" /\ pc = "Respond" /\ ~anchored =>
              /\ response.Status = "ERROR"
              /\ response.ErrorCode = "SIGNATURE_FAILED"
              /\ signedXML = ""
        /\ pc = "Embed" =>
              \A xml \in AnchorlessDocuments : \A signer \in {"signer.go", "part_002"} :
                  /\ ~AnchorPresent(signer, xml)
                  /\ InsertBy(signer, xml, xmlSignature).err # ""
                  /\ InsertBy(signer, xml, xmlSignature).bytes = ""

\* C12 witness: the signature of a document without an anchor was computed,
\* the embedding failed, and the request was answered without signed bytes.
C12_Witness ==
    /\ pc = "Done"
    /\ sigState = "Signed"
    /\ ~AnchorPresent(build.signer, xmlContent)
    /\ response.ErrorCode = "SIGNATURE_FAILED"
    /\ signedXML = ""

\* SignXML was called and got past the certificate and the PEM block of the
\* key, so that the encoding of the key decides what happens.
KeyParsed ==
    /\ \E i \in DOMAIN stages : stages[i] = "sign"
    /\ request.certificate.block /\ request.certificate.der
    /\ request.privateKey.block

\* Nothing was digested, signed or embedded.
NothingSigned ==
    /\ sigState = "Unsigned"
    /\ hash = 0
    /\ xmlSignature = EmptyXMLSignature
    /\ signedXML = ""

\* C13: SignXML accepts an RSA key in PKCS#1 and in PKCS#8 encoding and the
\* signature value is that of the key's pair over the digest, whatever the
\* encoding; a key block in neither encoding fails as unparsable and a
\* PKCS#8 key that is not RSA fails as not RSA, and in both cases nothing
\* is digested, signed or embedded.
C13_KeyEncodings ==
    LET key      == request.privateKey
        accepted == key.encoding = "PKCS1" \/ (key.encoding = "PKCS8" /\ key.algorithm = "RSA")
        returned == pc \in {"Respond", "Done"}
    IN  KeyParsed =>
          /\ accepted /\ returned => sigState # "Unsigned"
          /\ accepted /\ sigState \in {"Signed", "Embedded"} =>
                xmlSignature.SignatureValue =
                    EncodeToString(SignPKCS1v15(KeyPairs[key.pair], hash))
          /\ key.encoding \notin {"PKCS1", "PKCS8"} /\ returned =>
                /\ response.ErrorCode = "SIGNATURE_FAILED"
                /\ response.ErrorMessage = "Error en firma digital: failed to parse private key"
                /\ NothingSigned
          /\ key.encoding = "PKCS8" /\ key.algorithm # "RSA" /\ returned =>
                /\ response.ErrorCode = "SIGNATURE_FAILED"
                /\ response.ErrorMessage = "Error en firma digital: private key is not RSA"
                /\ NothingSigned

\* C13 witness: a PKCS#8 key that is not an RSA key was refused and the
\* request answered with nothing signed.
C13_Witness ==
    /\ pc = "Done"
    /\ KeyParsed
    /\ request.privateKey.encoding = "PKCS8"
    /\ request.privateKey.algorithm = "ECDSA"
    /\ response.ErrorMessage = "Error en firma digital: private key is not RSA"
    /\ NothingSigned

(***************************************************************************)
(* Determinism of the conversion and of the signature.                     *)
(***************************************************************************)

\* The signed XML of a run of ConvertToUBL (with addUBLSignature in
\* part_000) and SignXML on a document and key material, by a build, with
\* the clock reading now; "" if a step of the run fails.
SignedXMLOf(b, doc, cert, key, now) ==
    LET converted == IF b.service = "part_000" THEN ConvertToUBL(doc)
                     ELSE ConvertToUBLB(doc, now)
        referenced == IF b.service = "part_000" /\ converted.err = ""
                      THEN addUBLSignature(converted.bytes, doc)
                      ELSE converted
        content   == referenced.bytes
        digest    == Sum256(content)
        sig       == NewXMLSignature(IF b.signer = "part_001" THEN "" ELSE "SignatureSP",
                                     EncodeToString(digest),
                                     EncodeToString(SignPKCS1v15(KeyPairs[key.pair], digest)),
                                     CertBase64(cert))
    IN  IF referenced.err # "" \/ DecodeKeyMaterial(cert, key) # "" THEN ""
        ELSE InsertBy(b.signer, content, sig).bytes

\* A document with the text of the first element of a name left out.
Masked(xml, name) ==
    LET at   == Index(xml, name \o ">")
        from == at + Len(name) + 1
        stop == Index(SliceFrom(xml, from), "<")
    IN  IF at = -1 THEN xml
        ELSE Slice(xml, 0, from) \o SliceFrom(xml, from + stop)

\* A second run on the document and the key material of the request.
SecondRun(now) ==
    SignedXMLOf(build, request.document, request.certificate, request.privateKey, now)

\* SignXML has just returned the signed document to ProcessDocument.
JustEmbedded == sigState = "Embedded" /\ pc = "Save"

NoteWithReferenceConverted ==
    /\ pc \in {"AddUBLSignature", "SignXML"}
    /\ "convert" \in {stages[i] : i \in DOMAIN stages}
    /\ xmlData # ""
    /\ request.document.type \in {"07", "08"}
    /\ request.document.reference # NULL

\* The part of a document from the first start tag of a name on.
Inside(xml, name) ==
    LET at == Index(xml, "<" \o name \o ">")
    IN  IF at = -1 THEN "" ELSE SliceFrom(xml, at)

\* C15: the tree built for a credit note (07) or a debit note (08) with a
\* reference has exactly one DiscrepancyResponse and exactly one
\* BillingReference, and the identifier in each of them (ReferenceID, and
\* ID of the InvoiceDocumentReference) is reference.documentId.
C15_OneReferenceEach ==
    NoteWithReferenceConverted =>
        LET id == request.document.reference[1].documentID
        IN  /\ Count(xmlData, "<cac:DiscrepancyResponse>") = 1
            /\ Count(xmlData, "<cac:BillingReference>") = 1
            /\ Count(xmlData, "<cac:InvoiceDocumentReference>") = 1
            /\ TextOf(Inside(xmlData, "cac:DiscrepancyResponse"), "cbc:ReferenceID") = id
            /\ TextOf(Inside(xmlData, "cac:InvoiceDocumentReference"), "cbc:ID") = id

\* C15 witness: a debit note with a reference has been
\* converted, and the identifier of the note is not the one it refers to.
C15_Witness ==
    /\ NoteWithReferenceConverted
    /\ pc = "AddUBLSignature"
    /\ request.document.type = "08"
    /\ request.document.reference[1].documentID
         # request.document.series \o "-" \o request.document.number
    /\ Count(xmlData, "<cac:DiscrepancyResponse>") = 1

(***************************************************************************)
(* The type code of invoices and receipts.                                 *)
(***************************************************************************)

\* The start tag of the first element of a name, "" if there is none.
StartTag(xml, name) ==
    LET at   == Index(xml, "<" \o name)
        from == SliceFrom(xml, at)
    IN  IF at = -1 THEN "" ELSE Slice(from, 0, Index(from, ">") + 1)

\* The character data of the first element of a name.
ElementText(xml, name) ==
    LET at   == Index(xml, "<" \o name)
        from == SliceFrom(xml, at + Len(StartTag(xml, name)))
    IN  IF at = -1 THEN "" ELSE Slice(from, 0, Index(from, "<"))

\* The value of an attribute in a start tag, "" if the tag has none.
AttrValue(tag, attr) ==
    LET at   == Index(tag, " " \o attr \o "=" \o Q)
        from == SliceFrom(tag, at + Len(attr) + 3)
    IN  IF at = -1 THEN "" ELSE Slice(from, 0, Index(from, Q))

\* The mandatory catalog-context attributes of a type code.
CatalogContext == {"listAgencyName", "listID", "listName", "listURI"}

\* ConvertToUBL has just returned the tree of an invoice or a receipt that
\* passed validation.
InvoiceConverted ==
    /\ pc \in {"AddUBLSignature", "SignXML"}
    /\ "convert" \in {stages[i] : i \in DOMAIN stages}
    /\ xmlData # ""
    /\ request.document.type \in {"01", "03"}

\* C16: in the tree built for a valid document of type 01 or 03 the
\* InvoiceTypeCode element holds document.type, and its catalog-context
\* attributes (agency name, list identifier, list name, list URI) are
\* all non-empty.
C16_TypeCodeWithCatalogContext ==
    InvoiceConverted =>
        /\ ElementText(xmlData, "cbc:InvoiceTypeCode") = request.document.type
        /\ \A a \in CatalogContext :
              AttrValue(StartTag(xmlData, "cbc:InvoiceTypeCode"), a) # ""

(***************************************************************************)
(* Tax blocks of the document and of its lines.                            *)
(***************************************************************************)

\* ConvertToUBL has just returned the tree of the request's document.
DocumentConverted ==
    /\ pc \in {"AddUBLSignature", "SignXML"}
    /\ "convert" \in {stages[i] : i \in DOMAIN stages}
    /\ xmlData # ""

\* The start tag of the lines of a document type.
LineTag(type) ==
    CASE type = "07" -> "<cac:CreditNoteLine>"
      [] type = "08" -> "<cac:DebitNoteLine>"
      [] OTHER       -> "<cac:InvoiceLine>"

\* The TaxTotal and TaxSubtotal elements of a piece of a document, under
\* either way of writing the tag.
TaxTotalCount(xml) == Count(xml, "</cac:TaxTotal>") + Count(xml, "</TaxTotal>")

TaxSubtotalCount(xml) == Count(xml, "</cac:TaxSubtotal>") + Count(xml, "</TaxSubtotal>")

RECURSIVE ItemTaxEntries(_)
ItemTaxEntries(items) ==
    IF Len(items) = 0 THEN 0 ELSE Len(items[1].taxes) + ItemTaxEntries(Tail(items))

\* C17: above the lines the tree has one TaxTotal per distinct tax type of
\* the document's taxes, with one TaxSubtotal per entry (entries of one
\* type share a block), and in the lines it has one TaxTotal per entry of
\* the items' own taxes lists.
C17_TaxTotalPerTaxType ==
    DocumentConverted =>
        LET doc   == request.document
            at    == Index(xmlData, LineTag(doc.type))
            head  == Slice(xmlData, 0, at)
            lines == SliceFrom(xmlData, at)
        IN  /\ at # -1
            /\ TaxTotalCount(head)
                 = Cardinality({doc.taxes[i].taxType : i \in DOMAIN doc.taxes})
            /\ TaxSubtotalCount(head) = Len(doc.taxes)
            /\ TaxTotalCount(lines) = ItemTaxEntries(doc.items)

(***************************************************************************)
(* The stored file and the content hash.                                   *)
(***************************************************************************)

\* ProcessDocument has returned a success response.
Succeeded == pc \in {"Respond", "Done"} /\ response.Status = "SUCCESS"

\* ISSUER_ID-TYPE-SERIES-NUMBER.xml for a document.
SunatName(doc) ==
    doc.issuer.documentID \o "-" \o doc.type \o "-" \o doc.series \o "-" \o doc.number
        \o ".xml"

\* C18: on success the one stored file is named
\* ISSUER_ID-TYPE-SERIES-NUMBER.xml, holds exactly the bytes SignXML
\* returned, and the reported content hash is the hex encoding of the hash
\* of those bytes.
C18_StoredBytesNameAndHash ==
    Succeeded =>
        LET path == "xml_output/" \o SunatName(request.document)
        IN  /\ DOMAIN files = {path}
            /\ files[path] = signedXML
            /\ signedXML # ""
            /\ response.XMLHash = HexEncodeToString(Sum256(files[path]))

\* C18 witness: a credit note was stored and reported, after SignXML put
\* the signature into the document.
C18_Witness ==
    /\ Succeeded
    /\ request.document.type = "07"
    /\ sigState = "Embedded"
    /\ signedXML # xmlContent
    /\ "xml_output/20123456786-07-NC001-123456.xml" \in DOMAIN files

(***************************************************************************)
(* Two concurrent invocations of ProcessDocument.  The handler runs each   *)
(* request on its own goroutine against the one UBLConverterService.  The  *)
(* validator, the converter and the signature service hold a logger and    *)
(* nothing else, and ProcessDocument keeps its data in locals, so an       *)
(* invocation meets the other one only in the files under xmlStorePath.    *)
(* Under ConcSpec request, pc, signedXML and response hold one value per   *)
(* invocation; files and zips are the file system they share; the file     *)
(* system calls succeed.                                                   *)
(***************************************************************************)

Invocations == {1, 2}

\* The one element of a set; binding a result this way computes it once.
Only(S) == CHOOSE x \in S : TRUE

\* An invocation that ends before the store step, with its error response.
Stopped(resp) == [response |-> resp, signedXML |-> ""]

\* SignXML on the locals of an invocation: the key material is decoded,
\* the content hashed and signed, the signature inserted.
SignInMemory(b, content, cert, key) ==
    IF DecodeKeyMaterial(cert, key) # ""
    THEN Stopped(APIResponse("ERROR", "SIGNATURE_FAILED",
                             "Error en firma digital: " \o DecodeKeyMaterial(cert, key)))
    ELSE Only({ IF inserted.err # ""
                THEN Stopped(APIResponse("ERROR", "SIGNATURE_FAILED",
                         "Error en firma digital: failed to insert signature: "
                            \o inserted.err))
                ELSE [response |-> NoResponse, signedXML |-> inserted.bytes] :
                inserted \in
                  { InsertBy(b.signer, content,
                             NewXMLSignature(IF b.signer = "part_001" THEN ""
                                                                      ELSE "SignatureSP",
                                 EncodeToString(digest),
                                 EncodeToString(SignPKCS1v15(KeyPairs[key.pair], digest)),
                                 CertBase64(cert))) :
                    digest \in {Sum256(content)} } })

\* addUBLSignature (part_000 only) and SignXML on a converted document.
ReferenceAndSign(b, doc, cert, key, converted) ==
    IF converted.err # ""
    THEN Stopped(APIResponse("ERROR", "CONVERSION_FAILED",
                             "Error en conversión UBL: " \o converted.err))
    ELSE IF b.service # "part_000"
    THEN SignInMemory(b, converted.bytes, cert, key)
    ELSE Only({ IF referenced.err # ""
                THEN Stopped(APIResponse("ERROR", "UBL_SIGNATURE_FAILED",
                                 "Error al agregar firma UBL: " \o referenced.err))
                ELSE SignInMemory(b, referenced.bytes, cert, key) :
                referenced \in {addUBLSignature(converted.bytes, doc)} })

\* ProcessDocument up to the store step: validation, conversion and
\* signature, which work on locals only.  The response is NoResponse when
\* the invocation goes on to store signedXML.
ProcessInMemory(b, doc, cert, key, now) ==
    IF Len(ValidateBusinessDocument(doc)) > 0
    THEN Stopped([APIResponse("ERROR", "VALIDATION_FAILED", "Documento no válido")
                    EXCEPT !.ValidationErrors = ValidateBusinessDocument(doc)])
    ELSE Only({ ReferenceAndSign(b, doc, cert, key, converted) :
                converted \in { IF b.service = "part_000" THEN ConvertToUBL(doc)
                                ELSE ConvertToUBLB(doc, now) } })

\* The success response of ProcessDocument for a document, its signed XML
\* and the size of its archive.
SuccessResponse(doc, signed, zipSize) ==
    [APIResponse("SUCCESS", "", "") EXCEPT
       !.DocumentID = Slice(FileName(doc), 0, Len(FileName(doc)) - 4),
       !.XMLPath    = ZipPath(FilePath(doc)),
       !.XMLHash    = HexEncodeToString(Sum256(signed)),
       !.fileName   = FileName(doc),
       !.fileSize   = Len(signed),
       !.zipSize    = zipSize]

\* The documents of the concurrent requests: two invoices with the same
\* identifiers and different items, a receipt, and an invoice that fails
\* validation.
ConcDocs ==
    << MkDoc("01", FALSE, 1, "none"), MkDoc("01", FALSE, MaxItems, "none"),
       MkDoc("03", FALSE, 1, "none"), MkDoc("01", FALSE, 1, "total") >>

ConcInit ==
    /\ build \in [service : Services, signer : Signers]
    /\ request \in { << Request(TRUE, TRUE, TRUE, ConcDocs[d[1]], GoodCert, GoodKey),
                        Request(TRUE, TRUE, TRUE, ConcDocs[d[2]], GoodCert, GoodKey) >> :
                        d \in { p \in (DOMAIN ConcDocs) \X (DOMAIN ConcDocs) : p[1] < p[2] } }
    /\ pc = << "Process", "Process" >>
    /\ signedXML = << "", "" >>
    /\ response = << NoResponse, NoResponse >>
    /\ files = NoFiles
    /\ zips = NoFiles
    /\ stages = << >>
    /\ validationErrors = << >>
    /\ xmlData = ""
    /\ xmlContent = ""
    /\ sigState = "Unsigned"
    /\ hash = 0
    /\ xmlSignature = EmptyXMLSignature
    /\ http = [status |-> 0, body |-> NoResponse]

\* The variables an invocation never touches under ConcSpec.
ConcFixed ==
    << build, request, stages, validationErrors, xmlData, xmlContent, sigState, hash,
       xmlSignature, http >>

\* Invocation i validates, converts and signs its document.
Process(i) ==
    /\ pc[i] = "Process"
    /\ \E r \in { ProcessInMemory(build, request[i].document, request[i].certificate,
                                    request[i].privateKey, now) : now \in Clock } :
          /\ signedXML' = [signedXML EXCEPT ![i] = r.signedXML]
          /\ response' = [response EXCEPT ![i] = r.response]
          /\ pc' = [pc EXCEPT ![i] = IF r.response = NoResponse THEN "Save" ELSE "Done"]
    /\ UNCHANGED << files, zips >>
    /\ UNCHANGED ConcFixed

\* Invocation i: os.WriteFile(filePath, signedXML, 0644)
Store(i) ==
    /\ pc[i] = "Save"
    /\ files' = WriteFile(files, FilePath(request[i].document), signedXML[i])
    /\ pc' = [pc EXCEPT ![i] = "Zip"]
    /\ UNCHANGED << signedXML, response, zips >>
    /\ UNCHANGED ConcFixed

\* Invocation i: ZipXMLFile(filePath) packs what the file holds by now.
Package(i) ==
    /\ pc[i] = "Zip"
    /\ LET xmlPath == FilePath(request[i].document)
       IN  zips' = WriteFile(zips, ZipPath(xmlPath),
                             << [name |-> Base(xmlPath), content |-> files[xmlPath]] >>)
    /\ pc' = [pc EXCEPT ![i] = "Succeed"]
    /\ UNCHANGED << signedXML, response, files >>
    /\ UNCHANGED ConcFixed

\* Invocation i: the success response, with the size of the archive as
\* os.Stat reports it by now.
Reply(i) ==
    /\ pc[i] = "Succeed"
    /\ response' = [response EXCEPT ![i] =
                       SuccessResponse(request[i].document, signedXML[i],
                                       getFileSize(ZipPath(FilePath(request[i].document))))]
    /\ pc' = [pc EXCEPT ![i] = "Done"]
    /\ UNCHANGED << signedXML, files, zips >>
    /\ UNCHANGED ConcFixed

ConcNext ==
    \E i \in Invocations : Process(i) \/ Store(i) \/ Package(i) \/ Reply(i)

ConcSpec == ConcInit /\ [][ConcNext]_vars

\* What invocation i returns and signs when it runs alone and reads now.
Alone(i, now) ==
    Only({ IF r.response # NoResponse THEN r
           ELSE [response  |-> SuccessResponse(request[i].document, r.signedXML,
                                               Len(r.signedXML)),
                 signedXML |-> r.signedXML] :
           r \in { ProcessInMemory(build, request[i].document, request[i].certificate,
                                   request[i].privateKey, now) } })

\* C19: under every interleaving of two invocations on different
\* documents, each invocation returns the response and signs the bytes of
\* a run of its own (responses do not change once returned, so the two are
\* compared when both invocations have returned).
C19_AsWhenRunAlone ==
    (\A i \in Invocations : pc[i] = "Done") =>
        \A i \in Invocations :
            \E a \in { Alone(i, now) : now \in Clock } :
                /\ response[i] = a.response
                /\ signedXML[i] = a.signedXML

(***************************************************************************)
(* The XML declaration and the namespaces of the root.                     *)
(***************************************************************************)

\* The prefixes the documents and the signature blocks write.
Prefixes == {"cbc", "cac", "ext", "ds"}

\* The namespace attributes of a root element.
NamespaceAttrs == {"xmlns"} \cup {"xmlns:" \o p : p \in Prefixes}

\* The start tag of the root of a document of a type.
RootTag(xml, type) == StartTag(xml, RootName(type))

\* A start tag declares a namespace attribute once, and binds it to a name.
DeclaredOnce(tag, attr) ==
    /\ Count(tag, " " \o attr \o "=") = 1
    /\ AttrValue(tag, attr) # ""

\* C20: for every supported document type the output of the conversion
\* starts with the one XML declaration, the root element follows it, and
\* the root declares the default namespace and the prefixes cbc, cac, ext
\* and ds exactly once each; every prefix the signed document uses is
\* declared on its root.
C20_DeclarationAndRootNamespaces ==
    LET type == request.document.type
    IN  /\ DocumentConverted =>
              /\ Slice(xmlData, 0, Len(xmlDeclaration)) = xmlDeclaration
              /\ Count(xmlData, "<?xml") = 1
              /\ MatchAt(xmlData, "<" \o RootName(type), Len(xmlDeclaration))
              /\ \A a \in NamespaceAttrs : DeclaredOnce(RootTag(xmlData, type), a)
        /\ JustEmbedded =>
              \A p \in Prefixes :
                  Count(signedXML, "<" \o p \o ":") > 0
                      => DeclaredOnce(RootTag(signedXML, type), "xmlns:" \o p)

(***************************************************************************)
(* The catalog context of the coded values.                                *)
(***************************************************************************)

\* The coded elements of a document of a type, by local name.
CodedElements(type) ==
    { CASE type = "07" -> "CreditNoteTypeCode"
        [] type = "08" -> "DebitNoteTypeCode"
        [] OTHER       -> "InvoiceTypeCode",
      "DocumentCurrencyCode", "AddressTypeCode", "IdentificationCode" }

\* The start tag of the first element of a local name, written with the
\* cbc prefix or with a namespace attribute.
CodeTag(xml, local) ==
    IF Index(xml, "<cbc:" \o local) # -1 THEN StartTag(xml, "cbc:" \o local)
    ELSE StartTag(xml, local)

\* The parts of a catalog context; a code list names them list..., an
\* identifier scheme names them scheme....
ContextParts == {"AgencyName", "ID", "Name", "URI"}

\* C21: every coded value of the tree (document-type code, currency code,
\* address-type code, country code) has its agency name, list or scheme
\* identifier, list or scheme name and list or scheme URI next to it, none
\* of them empty.
C21_FullCatalogContext ==
    DocumentConverted =>
        \A local \in CodedElements(request.document.type) :
            LET tag == CodeTag(xmlData, local)
            IN  tag # "" =>
                    \A part \in ContextParts :
                        \/ AttrValue(tag, "list" \o part) # ""
                        \/ AttrValue(tag, "scheme" \o part) # ""

(***************************************************************************)
(* The text of the numeric leaves.                                         *)
(***************************************************************************)

\* The numeric leaves of a document, by local name.
NumericLeaves ==
    {"PayableAmount", "TaxInclusiveAmount", "LineExtensionAmount", "TaxAmount",
     "TaxableAmount", "PriceAmount", "Percent"}

\* The character data of the first element of a local name, written with
\* the cbc prefix or with a namespace attribute.
LeafText(xml, local) ==
    IF Index(xml, "<cbc:" \o local) # -1 THEN ElementText(xml, "cbc:" \o local)
    ELSE ElementText(xml, local)

LeafPresent(xml, local) ==
    Index(xml, "<cbc:" \o local) # -1 \/ Index(xml, "<" \o local) # -1

\* Digits, a '.', and exactly two digits, after an optional sign.
TwoDecimals(t) ==
    LET body == IF Len(t) > 0 /\ CharAt(t, 0) = "-" THEN SliceFrom(t, 1) ELSE t
        n    == Len(body)
    IN  /\ n >= 4
        /\ CharAt(body, n - 3) = "."
        /\ AllDigits(Slice(body, 0, n - 3))
        /\ AllDigits(SliceFrom(body, n - 2))

\* C22: every monetary, price and rate leaf of the output has exactly two
\* digits after a '.', its sign kept, no exponent and no thousands
\* separator (a payable amount of 118 is written "118.00").
C22_TwoDecimalLeaves ==
    DocumentConverted =>
        \A local \in NumericLeaves :
            LeafPresent(xmlData, local) => TwoDecimals(LeafText(xmlData, local))

(***************************************************************************)
(* The validator on its own: ValidateBusinessDocument is applied to        *)
(* documents that differ in the issuer's RUC.                              *)
(***************************************************************************)

\* The first nine characters of the RUCs tried.
RucPrefixes == {"201234567", "104567890", "201000000"}

\* Every RUC with one of the prefixes and any two last digits, and some
\* strings that are no RUC at all.
Rucs ==
    { p \o d1 \o d2 : p \in RucPrefixes, d1 \in DigitChars, d2 \in DigitChars }
    \cup {"", "2012345678", "201234567860", "2012345678X", "20123 56786", "2012345678-"}

\* The amounts tried, in hundredths: 0.10, 100.10, 100.00, 84.75 and
\* 0.20, 18.02, 18.00, 15.26.
SubTotals == {10, 10010, 10000, 8475}
TaxAmounts == {20, 1802, 1800, 1526}

\* A document with the given subtotal, document-level tax amounts and total.
AmountDoc(subTotal, taxAmounts, totalAmount) ==
    [MkDoc("01", FALSE, 1, "none") EXCEPT
        !.totals = [subTotal |-> subTotal, totalTaxes |-> SumTaxAmount(taxAmounts),
                    totalAmount |-> totalAmount, payableAmount |-> totalAmount],
        !.taxes  = [i \in DOMAIN taxAmounts |->
                      [IGV(subTotal) EXCEPT !.taxAmount = taxAmounts[i].taxAmount]]]

\* One tax of each amount on each subtotal, and no tax at all, with a total
\* that is the decimal sum, one hundredth more or one hundredth less.
AmountDocs ==
    { AmountDoc(sub, << [taxAmount |-> tax] >>, sub + tax + delta) :
        sub \in SubTotals, tax \in TaxAmounts, delta \in {-1, 0, 1} }
    \cup { AmountDoc(sub, << >>, sub + delta) : sub \in SubTotals, delta \in {-1, 0, 1} }

ValidatorRequests ==
    { Request(TRUE, TRUE, TRUE,
              [MkDoc("01", FALSE, 1, "none") EXCEPT !.issuer.documentID = ruc],
              GoodCert, GoodKey) : ruc \in Rucs }
    \cup { Request(TRUE, TRUE, TRUE, doc, GoodCert, GoodKey) : doc \in AmountDocs }

ValidatorInit ==
    /\ build \in [service : Services, signer : Signers]
    /\ pc = "Validate"
    /\ request \in ValidatorRequests
    /\ stages = << >>
    /\ validationErrors = << >>
    /\ xmlData = ""
    /\ xmlContent = ""
    /\ sigState = "Unsigned"
    /\ hash = 0
    /\ xmlSignature = EmptyXMLSignature
    /\ signedXML = ""
    /\ files = NoFiles
    /\ zips = NoFiles
    /\ response = NoResponse
    /\ http = [status |-> 0, body |-> NoResponse]

ValidatorNext == Validate

ValidatorSpec == ValidatorInit /\ [][ValidatorNext]_vars

\* The validator has run on the request's document.
Validated == pc # "Validate"

\* The validator reported the rule of a name.
Reported(rule) == \E i \in DOMAIN validationErrors : validationErrors[i].rule = rule

\* The digit that 11 - (sum mod 11) stands for: 11 is 0 and 10 is 1.
CheckDigitOf(raw) == IF raw = 11 THEN 0 ELSE IF raw = 10 THEN 1 ELSE raw

\* 11 - (sum mod 11) over the first ten digits with the weights
\* 5,4,3,2,7,6,5,4,3,2.
RawCheck(ruc) ==
    LET D(i) == DigitVal(CharAt(ruc, i))
    IN  11 - ((5 * D(0) + 4 * D(1) + 3 * D(2) + 2 * D(3) + 7 * D(4) + 6 * D(5)
                + 5 * D(6) + 4 * D(7) + 3 * D(8) + 2 * D(9)) % 11)

\* Eleven decimal digits, the last of them the check digit of the others.
WellFormedRUC(ruc) ==
    /\ Len(ruc) = 11
    /\ \A i \in 0..10 : CharAt(ruc, i) \in DigitChars
    /\ DigitVal(CharAt(ruc, 10)) = CheckDigitOf(RawCheck(ruc))

\* C23: isValidRUC accepts exactly the strings of 11 decimal digits whose
\* last digit is the check digit of the first ten (weights
\* 5,4,3,2,7,6,5,4,3,2, 11 - (sum mod 11), 11 read as 0 and 10 as 1);
\* 20123456794 and 20123456786 are accepted and 20123456789 is rejected.
C23_RucCheckDigit ==
    /\ Validated =>
          (Reported("ruc_validation")
             <=> ~WellFormedRUC(request.document.issuer.documentID))
    /\ Validated /\ request.document.issuer.documentID \in {"20123456794", "20123456786"}
          => ~Reported("ruc_validation")
    /\ Validated /\ request.document.issuer.documentID = "20123456789"
          => Reported("ruc_validation")

\* C23 witness: a RUC whose computed digit is 10 and whose last digit is 1
\* has been accepted.
C23_Witness ==
    /\ Validated
    /\ Len(request.document.issuer.documentID) = 11
    /\ AllDigits(request.document.issuer.documentID)
    /\ RawCheck(request.document.issuer.documentID) = 10
    /\ DigitVal(CharAt(request.document.issuer.documentID, 10)) = 1
    /\ ~Reported("ruc_validation")

(***************************************************************************)
(* The identification scheme of the parties.                               *)
(***************************************************************************)

\* The block of a party in a document, from its start tag to its end tag.
PartySection(xml, tag) ==
    LET from == Index(xml, "<" \o tag)
        to   == Index(xml, "</" \o tag \o ">")
    IN  IF from = -1 \/ to = -1 THEN "" ELSE Slice(xml, from, to)

\* The identifiers of a block that carry a scheme identifier.
SchemeCount(section, id) == Count(section, " schemeID=" \o Q \o id \o Q)

\* The identification blocks of a party: the identifiers whose scheme is
\* named after the identity document.
IdentificationBlocks(section) == Count(section, "Documento de Identidad" \o Q)

\* Every identification block of a party's section has the scheme "1" for
\* the identity-document type "1" and the scheme "6" for any other.
SchemeSelected(section, party) ==
    LET expected == IF party.documentType = "1" THEN "1" ELSE "6"
        other    == IF party.documentType = "1" THEN "6" ELSE "1"
    IN  /\ IdentificationBlocks(section) >= 1
        /\ SchemeCount(section, expected) = IdentificationBlocks(section)
        /\ SchemeCount(section, other) = 0

\* ConvertToUBL has just returned the tree of the request's document.  The
\* conversion does not depend on the signature service of the build, so
\* one of them is looked at.
FreshlyConverted ==
    /\ xmlData # ""
    /\ build.signer = "signer.go"
    /\ \/ pc = "AddUBLSignature"
       \/ pc = "SignXML" /\ build.service = "part_001"

\* The customer of the request with a foreigner's card for identity document.
ForeignCustomer == [request.document.customer EXCEPT !.documentType = "4"]

\* C24: convertParty writes the scheme identifier "1" when the party's
\* documentType is "1" and "6" otherwise, the same on every identification
\* block of the party.
C24_SchemeFromDocumentType ==
    FreshlyConverted =>
        /\ SchemeSelected(PartySection(xmlData, "cac:AccountingSupplierParty"),
                          request.document.issuer)
        /\ SchemeSelected(PartySection(xmlData, "cac:AccountingCustomerParty"),
                          request.document.customer)
        /\ SchemeSelected(IF build.service = "part_000"
                          THEN convertParty(1, "  ", "cac:AccountingCustomerParty",
                                            ForeignCustomer)
                          ELSE convertPartyB(1, "  ", "cac:AccountingCustomerParty",
                                             ForeignCustomer),
                          ForeignCustomer)

\* C24 witness: part_000 has converted a document whose issuer has a RUC
\* and whose customer has a DNI, with three identification blocks each.
C24_Witness ==
    /\ FreshlyConverted
    /\ build.service = "part_000"
    /\ request.document.issuer.documentType = "6"
    /\ request.document.customer.documentType = "1"
    /\ SchemeCount(PartySection(xmlData, "cac:AccountingSupplierParty"), "6") = 3
    /\ SchemeCount(PartySection(xmlData, "cac:AccountingCustomerParty"), "1") = 3

(***************************************************************************)
(* The rule of the totals.                                                 *)
(***************************************************************************)

\* The total of the document is its subtotal plus its document-level tax
\* amounts, to the hundredth.
TotalsAgree(doc) == doc.totals.totalAmount = doc.totals.subTotal + SumTaxAmount(doc.taxes)

\* C25: ValidateBusinessDocument reports a totals.totalAmount error exactly
\* when totalAmount differs from subTotal plus the sum of the document-level
\* taxAmount values; a document whose amounts agree to two decimals is never
\* rejected by this rule.
C25_TotalRuleExactlyOnMismatch ==
    Validated => (Reported("sum_validation") <=> ~TotalsAgree(request.document))

(***************************************************************************)
(* Indexing of the lists of a document by the converter.                   *)
(***************************************************************************)

\* ConvertToUBL has just been called on the request's document, which had
\* passed ValidateBusinessDocument.
JustConverted ==
    /\ Len(stages) > 0 /\ stages[Len(stages)] = "convert"
    /\ validationErrors = << >>

\* The call returned XML bytes or an error value.
ReturnedXMLOrError ==
    \/ pc \in {"AddUBLSignature", "SignXML"} /\ xmlData # ""
    \/ pc = "Respond" /\ response.ErrorCode = "CONVERSION_FAILED"

\* C26: ConvertToUBL never indexes past the end of a list: for every
\* document that passes ValidateBusinessDocument, one with an item without
\* taxes or without document-level taxes included, the conversion returns
\* XML or an error value and never panics.
C26_ConversionNeverPanics == JustConverted => ReturnedXMLOrError /\ http.status # 500

(***************************************************************************)
(* The signature reference of the document and the signature it names.     *)
(***************************************************************************)

\* SignXML has just returned the signed document of an invoice or receipt.
JustSigned ==
    /\ pc = "Save" /\ sigState = "Embedded" /\ signedXML # ""
    /\ request.document.type \in {"01", "03"}

\* The start tag of the embedded XML-DSig Signature element, written with
\* the ds prefix or with the namespace as its default.
SignatureTag(xml) ==
    IF Index(xml, "<ds:Signature ") # -1 THEN StartTag(xml, "ds:Signature ")
    ELSE StartTag(xml, "Signature xmlns=" \o Q \o NsDs \o Q)

\* The Id attribute of the embedded Signature.
SignatureId(xml) == AttrValue(SignatureTag(xml), "Id")

\* The external reference of the document's cac:Signature.
ExternalReferenceURI(xml) ==
    LET from == Index(xml, "ExternalReference")
    IN  IF from = -1 THEN "" ELSE ElementText(SliceFrom(xml, from), "URI")

\* C27: in every signed document the Id of the embedded ds:Signature is
\* "SignatureSP", the identifier that the external reference URI
\* "#SignatureSP" of the document's cac:Signature points to.
C27_ReferenceNeverDangles ==
    JustSigned =>
        /\ ExternalReferenceURI(signedXML) = "#SignatureSP"
        /\ SignatureId(signedXML) = "SignatureSP"

\* C28: the signed invoice that ProcessDocument produces contains exactly
\* one cac:Signature element: the one the builder sets and the one that
\* addUBLSignature splices after cbc:UBLVersionID never both appear.
C28_OneSignatureReference == JustSigned => Count(signedXML, "<cac:Signature>") = 1

(***************************************************************************)
(* The amounts of the document-level tax totals.                           *)
(***************************************************************************)

\* The part of a converted document above its lines.
DocumentHead(xml, type) ==
    LET at == Index(xml, LineTag(type)) IN IF at = -1 THEN xml ELSE Slice(xml, 0, at)

\* The cac:TaxTotal blocks of a piece of a document, in order.
RECURSIVE TaxTotalBlocks(_)
TaxTotalBlocks(xml) ==
    LET from == Index(xml, "<cac:TaxTotal>")
        to   == Index(xml, "</cac:TaxTotal>")
    IN  IF from = -1 \/ to = -1 THEN << >>
        ELSE << Slice(xml, from, to) >>
               \o TaxTotalBlocks(SliceFrom(xml, to + Len("</cac:TaxTotal>")))

\* The number a string of decimal digits stands for.
RECURSIVE ParseDigits(_)
ParseDigits(t) ==
    IF Len(t) = 0 THEN 0
    ELSE 10 * ParseDigits(Slice(t, 0, Len(t) - 1)) + DigitVal(CharAt(t, Len(t) - 1))

\* The amount a text stands for, in hundredths: "18", "18.5" and "18.50".
ParseAmount(t) ==
    LET dot  == Index(t, ".")
        frac == IF dot = -1 THEN "" ELSE SliceFrom(t, dot + 1)
    IN  IF dot = -1 THEN 100 * ParseDigits(t)
        ELSE 100 * ParseDigits(Slice(t, 0, dot))
               + (IF Len(frac) = 1 THEN 10 * ParseDigits(frac)
                  ELSE ParseDigits(Slice(frac, 0, 2)))

\* The TaxAmount values of a block, in order: the block's own amount first
\* and those of its subtotals after it.
RECURSIVE BlockTaxAmounts(_)
BlockTaxAmounts(block) ==
    LET at   == Index(block, "TaxAmount ")
        from == SliceFrom(block, at)
        text == Slice(from, Index(from, ">") + 1, Index(from, "<"))
    IN  IF at = -1 THEN << >>
        ELSE << ParseAmount(text) >> \o BlockTaxAmounts(SliceFrom(from, Index(from, "<")))

RECURSIVE SumAmounts(_)
SumAmounts(amounts) ==
    IF Len(amounts) = 0 THEN 0 ELSE amounts[1] + SumAmounts(Tail(amounts))

\* C29: the TaxAmount of each document-level TaxTotal block equals the sum
\* of the TaxAmount values of the subtotals it wraps, for any number of
\* entries in the document's taxes.
C29_TaxTotalIsSumOfSubtotals ==
    JustConverted /\ xmlData # "" =>
        LET blocks == TaxTotalBlocks(DocumentHead(xmlData, request.document.type))
        IN  \A i \in DOMAIN blocks :
                LET amounts == BlockTaxAmounts(blocks[i])
                IN  Len(amounts) > 1 /\ amounts[1] = SumAmounts(Tail(amounts))

(***************************************************************************)
(* Two invocations that write to the same file.                            *)
(***************************************************************************)

\* The two documents have the same output file name and differ in content.
SameNameOtherContent ==
    /\ FileName(request[1].document) = FileName(request[2].document)
    /\ request[1].document # request[2].document

\* The entry of the archive that the file of invocation i is packed into.
ArchiveEntry(archives, i) == archives[ZipPath(FilePath(request[i].document))][1]

\* C30: for two concurrent ProcessDocument invocations whose documents have
\* the same output file name and differ in content, under every
\* interleaving of the write and packaging steps the archive entry that an
\* invocation packs and the content hash it reports are those of its own
\* signed bytes.
C30_OwnBytesArchivedAndHashed ==
    [][\A i \in Invocations :
          /\ SameNameOtherContent /\ Package(i)
                => ArchiveEntry(zips', i).content = signedXML[i]
          /\ SameNameOtherContent /\ Reply(i)
                => response'[i].XMLHash = HexEncodeToString(Sum256(signedXML[i]))]_vars

=============================================================================
